---- MODULE Spec2Model ----
(***************************************************************************)
(* Snippetbox: a state-machine model of the request pipeline               *)
(* (cmd/web/routes.go, middleware.go, handlers.go, helpers.go), the form   *)
(* validator (internal/validator) and the data models (internal/models).   *)
(*                                                                         *)
(* One action = one HTTP request served by the handler routes() returns:   *)
(* session LoadAndSave, noSurf, authenticate, requireAuthentication (on    *)
(* protected routes), the route handler, and the session commit.           *)
(* Strings that the code inspects (form values, the id path segment) are   *)
(* sequences of runes; paths and messages are opaque strings.              *)
(***************************************************************************)
EXTENDS Integers, Sequences, FiniteSets, TLC

\* ------------------------------------------------------------------ bounds
MaxUsers == 2        \* rows the users table may receive
MaxSnippets == 1     \* rows the snippets table may receive
MaxTicks == 1        \* clock advances

\* ------------------------------------------------------- program constants
StatusOK == 200
StatusMovedPermanently == 301
StatusSeeOther == 303
StatusBadRequest == 400
StatusNotFound == 404
StatusMethodNotAllowed == 405
StatusUnprocessableEntity == 422
StatusInternalServerError == 500
TitleMaxChars == 100
PasswordMinChars == 8
LabelInnerMax == 61

\* ------------------------------------------------------------------ runes
Digits == {"0", "1", "2", "3", "4", "5", "6", "7", "8", "9"}
Letters == {"a", "b", "d", "f", "o", "p", "r", "s", "w", "x", "A", "T", "C"}
Alnum == Letters \cup Digits
WhiteSpace == {" ", "\t", "\n"}
\* the characters EmailRX allows before the @
\* (restricted to the runes the model's inputs use)
LocalChars == Alnum \cup {".", "!", "#", "$", "+", "=", "_", "-"}

DigitValue(r) ==
    CASE r = "0" -> 0 [] r = "1" -> 1 [] r = "2" -> 2 [] r = "3" -> 3
      [] r = "4" -> 4 [] r = "5" -> 5 [] r = "6" -> 6 [] r = "7" -> 7
      [] r = "8" -> 8 [] r = "9" -> 9

\* ------------------------------------------------ internal/validator (pure)
RECURSIVE TrimLeft(_)
TrimLeft(s) ==
    IF s # <<>> /\ Head(s) \in WhiteSpace THEN TrimLeft(Tail(s)) ELSE s

RECURSIVE TrimRight(_)
TrimRight(s) ==
    IF s # <<>> /\ s[Len(s)] \in WhiteSpace
    THEN TrimRight(SubSeq(s, 1, Len(s) - 1))
    ELSE s

TrimSpace(s) == TrimRight(TrimLeft(s))

NotBlank(value) == TrimSpace(value) # <<>>

RuneCountInString(value) == Len(value)

\* Variant: the limit itself is refused.
MaxChars_Strict(value, n) == RuneCountInString(value) < n

MaxChars(value, n) == RuneCountInString(value) <= n

\* Variant: the minimum itself is refused.
MinChars_Strict(value, n) == RuneCountInString(value) > n

MinChars(value, n) == RuneCountInString(value) >= n

PermittedValue(value, permittedValues) == value \in permittedValues

\* one label of the domain part of EmailRX:
\* [a-zA-Z0-9](?:[a-zA-Z0-9-]{0,61}[a-zA-Z0-9])?
IsLabel(l) ==
    /\ Len(l) >= 1
    /\ l[1] \in Alnum
    /\ Len(l) >= 2 =>
         /\ Len(l) - 2 <= LabelInnerMax
         /\ l[Len(l)] \in Alnum
         /\ \A i \in 2..(Len(l) - 1) : l[i] \in Alnum \cup {"-"}

\* label(\.label)*
RECURSIVE IsDomain(_)
IsDomain(d) ==
    LET dots == {i \in 1..Len(d) : d[i] = "."}
    IN  IF dots = {}
        THEN IsLabel(d)
        ELSE LET k == CHOOSE i \in dots : \A j \in dots : i <= j
             IN  /\ IsLabel(SubSeq(d, 1, k - 1))
                 /\ IsDomain(SubSeq(d, k + 1, Len(d)))

\* validator.Matches(value, validator.EmailRX)
MatchesEmailRX(value) ==
    \E i \in 1..Len(value) :
        /\ value[i] = "@"
        /\ i > 1
        /\ \A j \in 1..(i - 1) : value[j] \in LocalChars
        /\ IsDomain(SubSeq(value, i + 1, Len(value)))

\* Validator: FieldErrors is a map (a function on the keys that have an
\* error), NonFieldErrors a list.
NewValidator == [FieldErrors |-> <<>>, NonFieldErrors |-> <<>>]

\* Variant: a later error for a key replaces the earlier one.
AddFieldError_Overwrites(v, key, message) ==
    [v EXCEPT !.FieldErrors =
        [k \in DOMAIN v.FieldErrors \cup {key} |->
            IF k = key THEN message ELSE v.FieldErrors[k]]]

AddFieldError(v, key, message) ==
    IF key \in DOMAIN v.FieldErrors
    THEN v
    ELSE [v EXCEPT !.FieldErrors =
            [k \in DOMAIN v.FieldErrors \cup {key} |->
                IF k = key THEN message ELSE v.FieldErrors[k]]]

AddNonFieldError(v, message) ==
    [v EXCEPT !.NonFieldErrors = Append(v.NonFieldErrors, message)]

CheckField(v, ok, key, message) ==
    IF ~ok THEN AddFieldError(v, key, message) ELSE v

\* Variant: only the field errors count.
Valid_FieldErrorsOnly(v) ==
    Cardinality(DOMAIN v.FieldErrors) = 0

Valid(v) ==
    Cardinality(DOMAIN v.FieldErrors) = 0 /\ Len(v.NonFieldErrors) = 0

\* --------------------------------------------------------- strconv.Atoi
\* [ok, n]: an optional sign, then one or more decimal digits.
RECURSIVE DigitsValue(_, _)
DigitsValue(s, acc) ==
    IF s = <<>> THEN acc ELSE DigitsValue(Tail(s), acc * 10 + DigitValue(Head(s)))

Atoi(s) ==
    LET signed == s # <<>> /\ Head(s) \in {"+", "-"}
        body == IF signed THEN Tail(s) ELSE s
    IN  IF body = <<>> \/ \E i \in 1..Len(body) : body[i] \notin Digits
        THEN [ok |-> FALSE, n |-> 0]
        ELSE [ok |-> TRUE,
              n |-> IF signed /\ Head(s) = "-"
                    THEN 0 - DigitsValue(body, 0)
                    ELSE DigitsValue(body, 0)]

\* ------------------------------------------------------------- the state
Clients == {"c1"}
TokenPool == {"t1", "t2", "t3", "t4"}   \* session tokens (random in the code)
NoToken == "none"
CsrfReal == "k1"                \* the token nosurf generates for a browser
CsrfForged == "forged"          \* a value that is no browser's token
NoCsrf == "none"
ExpiryDays == {1, 7, 365}

VARIABLES
    users,          \* users table: id -> [name, email, hashed_password]
    nextUserID,     \* its AUTO_INCREMENT counter
    snippets,       \* snippets table: id -> [title, content, created, expires]
    nextSnippetID,  \* its AUTO_INCREMENT counter
    now,            \* UTC_TIMESTAMP(), in days
    ticks,          \* clock advances so far
    store,          \* session store: token -> values (key -> value)
    cookie,         \* browser -> session cookie (a token or NoToken)
    csrf,           \* browser -> CSRF cookie (a token or NoCsrf)
    last,           \* the request served last and its response
    hist,           \* history, per browser: the protected path its session
                    \* was last turned away from and not yet returned to;
                    \* whether it logged out and has not logged in since;
                    \* whether a panic was raised while serving it
    ins,            \* UserModel.Insert calls in flight (specification SpecInsert)
    validation,     \* a Validator and the calls made on it, in order
                    \* (specification SpecValidator)
    flight,         \* requests between LoadAndSave's load and its commit, and
                    \* the tokens logouts retired (specification SpecFlight)
    upd             \* UserModel.PasswordUpdate calls in flight
                    \* (specification SpecUpdate)

vars == <<users, nextUserID, snippets, nextSnippetID, now, ticks, store,
          cookie, csrf, last, hist, ins, validation, flight, upd>>

\* ---------------------------------------------------- bcrypt (cost 12)
GenerateFromPassword(password) == [bcrypt |-> password]

CompareHashAndPassword(hash, password) == hash.bcrypt = password

\* ------------------------------------------------ scs session manager
\* A loaded session: the token it was found under, its values, whether the
\* request changed it (only then LoadAndSave commits it), and the calls the
\* request made on it, in order.
EmptyValues == <<>>

Load(st, token) ==
    IF token \in DOMAIN st
    THEN [token |-> token, values |-> st[token], modified |-> FALSE,
          log |-> <<>>]
    ELSE [token |-> NoToken, values |-> EmptyValues, modified |-> FALSE,
          log |-> <<>>]

Put(sd, key, val) ==
    [sd EXCEPT !.values = [k \in DOMAIN sd.values \cup {key} |->
                              IF k = key THEN val ELSE sd.values[k]],
               !.modified = TRUE,
               !.log = Append(sd.log, <<"Put", key>>)]

Remove(sd, key) ==
    IF key \notin DOMAIN sd.values
    THEN [sd EXCEPT !.log = Append(sd.log, <<"Remove", key>>)]
    ELSE [sd EXCEPT !.values = [k \in DOMAIN sd.values \ {key} |-> sd.values[k]],
                    !.modified = TRUE,
                    !.log = Append(sd.log, <<"Remove", key>>)]

GetInt(sd, key) == IF key \in DOMAIN sd.values THEN sd.values[key] ELSE 0

GetString(sd, key) == IF key \in DOMAIN sd.values THEN sd.values[key] ELSE ""

\* PopString: the value, and the session without it
PopString(sd, key) == [val |-> GetString(sd, key), sd |-> Remove(sd, key)]

\* a token no session and no browser holds
FreshToken(st, held) ==
    CHOOSE t \in TokenPool : t \notin DOMAIN st /\ t \notin held

\* The world a request runs against: its loaded session and the storage.
\*   [sd, store, users, nextUserID, snippets, nextSnippetID]

\* RenewToken: deletes the session's token from the store and gives the
\* session a new one; fails when the store's delete fails.
\* Variant: the token is left as it is.
RenewToken_Skipped(w, held, dbFails) ==
    IF dbFails THEN [err |-> "error", w |-> w] ELSE [err |-> "nil", w |-> w]

RenewToken(w, held, dbFails) ==
    IF dbFails
    THEN [err |-> "error", w |-> w]
    ELSE [err |-> "nil",
          w |-> [w EXCEPT
                   !.store = [t \in DOMAIN w.store \ {w.sd.token} |-> w.store[t]],
                   !.sd = [w.sd EXCEPT !.token = FreshToken(w.store, held),
                                       !.modified = TRUE,
                                       !.log = Append(w.sd.log, <<"RenewToken", "">>)]]]

\* LoadAndSave after the handler returned: a modified session is stored
\* (under a new token when it has none) and its cookie is sent.
Commit(w, held) ==
    IF ~w.sd.modified
    THEN [store |-> w.store, cookie |-> NoToken, sent |-> FALSE]
    ELSE LET t == IF w.sd.token = NoToken THEN FreshToken(w.store, held)
                  ELSE w.sd.token
         IN  [store |-> [k \in DOMAIN w.store \cup {t} |->
                            IF k = t THEN w.sd.values ELSE w.store[k]],
              cookie |-> t, sent |-> TRUE]

\* ------------------------------------------- internal/models: UserModel
EmailTaken(us, email) == \E id \in DOMAIN us : us[id].email = email

\* The users table's unique key users_uc_email: the storage layer rejects
\* a row whose email a stored row already has.
UniqueKeyViolated(us, email) == EmailTaken(us, email)

\* DB.Exec of the INSERT statement, one atomic step of the storage layer:
\* the MySQL error it ends with ("nil" when the row was stored).
ExecInsertUser(w, name, email, hashedPassword, dbFails) ==
    IF dbFails THEN [dberr |-> "error", w |-> w]
    ELSE IF UniqueKeyViolated(w.users, email)
    THEN [dberr |-> "1062 users_uc_email", w |-> w]
    ELSE [dberr |-> "nil",
          w |-> [w EXCEPT
                   !.users = [id \in DOMAIN w.users \cup {w.nextUserID} |->
                                IF id = w.nextUserID
                                THEN [name |-> name, email |-> email,
                                      hashed_password |-> hashedPassword]
                                ELSE w.users[id]],
                   !.nextUserID = w.nextUserID + 1]]

\* Variant: the duplicate-key error is returned as any other error.
InsertError_Generic(dberr) ==
    IF dberr = "nil" THEN "nil" ELSE "error"

\* Variant: the duplicate-key error is dropped.
InsertError_SwallowsDuplicate(dberr) ==
    IF dberr = "nil" THEN "nil"
    ELSE IF dberr = "1062 users_uc_email" THEN "nil"
    ELSE "error"

\* what Insert returns for the error Exec ended with
InsertError(dberr) ==
    IF dberr = "nil" THEN "nil"
    ELSE IF dberr = "1062 users_uc_email" THEN "ErrDuplicateEmail"
    ELSE "error"

\* Insert: hash, then the one INSERT statement; no lookup precedes it.
UserInsert(w, name, email, password, dbFails) ==
    LET hashedPassword == GenerateFromPassword(password)
        x == ExecInsertUser(w, name, email, hashedPassword, dbFails)
    IN  [err |-> InsertError(x.dberr), w |-> x.w]

\* Variant: an unknown email is reported as a missing record.
Authenticate_NoRecord(us, email, password, dbFails) ==
    IF dbFails THEN [id |-> 0, err |-> "error"]
    ELSE IF ~EmailTaken(us, email)
    THEN [id |-> 0, err |-> "ErrNoRecord"]
    ELSE LET id == CHOOSE i \in DOMAIN us : us[i].email = email
         IN  IF ~CompareHashAndPassword(us[id].hashed_password, password)
             THEN [id |-> 0, err |-> "ErrInvalidCredentials"]
             ELSE [id |-> id, err |-> "nil"]

Authenticate(us, email, password, dbFails) ==
    IF dbFails THEN [id |-> 0, err |-> "error"]
    ELSE IF ~EmailTaken(us, email)
    THEN [id |-> 0, err |-> "ErrInvalidCredentials"]
    ELSE LET id == CHOOSE i \in DOMAIN us : us[i].email = email
         IN  IF ~CompareHashAndPassword(us[id].hashed_password, password)
             THEN [id |-> 0, err |-> "ErrInvalidCredentials"]
             ELSE [id |-> id, err |-> "nil"]

Exists(us, id, dbFails) ==
    IF dbFails THEN [exists |-> FALSE, err |-> "error"]
    ELSE [exists |-> id \in DOMAIN us, err |-> "nil"]

\* Variant: a missing row is returned as the zero user without an error.
UserGet_ZeroUser(us, id, dbFails) ==
    IF dbFails THEN [found |-> FALSE, id |-> 0, err |-> "error"]
    ELSE [found |-> id \in DOMAIN us, id |-> IF id \in DOMAIN us THEN id ELSE 0,
          err |-> "nil"]

\* UserModel.Get: the row with that id, ErrNoRecord when there is none
UserGet(us, id, dbFails) ==
    IF dbFails THEN [found |-> FALSE, id |-> 0, err |-> "error"]
    ELSE IF id \notin DOMAIN us THEN [found |-> FALSE, id |-> 0, err |-> "ErrNoRecord"]
    ELSE [found |-> TRUE, id |-> id, err |-> "nil"]

\* Variant: the current password is not compared with the stored hash.
PasswordUpdate_NoCompare(us, id, current_password, new_password, dbFails) ==
    IF dbFails THEN [users |-> us, err |-> "error"]
    ELSE IF id \notin DOMAIN us
    THEN [users |-> us, err |-> "ErrInvalidCredentials"]
    ELSE [users |-> [us EXCEPT ![id].hashed_password =
                                   GenerateFromPassword(new_password)],
          err |-> "nil"]

\* PasswordUpdate: the hash stored for id is read and compared with the
\* current password; only then is the row of id given the new hash.
PasswordUpdate(us, id, current_password, new_password, dbFails) ==
    IF dbFails THEN [users |-> us, err |-> "error"]
    ELSE IF id \notin DOMAIN us
    THEN [users |-> us, err |-> "ErrInvalidCredentials"]
    ELSE IF ~CompareHashAndPassword(us[id].hashed_password, current_password)
    THEN [users |-> us, err |-> "ErrInvalidCredentials"]
    ELSE [users |-> [us EXCEPT ![id].hashed_password =
                                   GenerateFromPassword(new_password)],
          err |-> "nil"]

\* ---------------------------------------- internal/models: SnippetModel
\* Insert returns (0, nil) when Exec fails.
\* Variant: the row expires at its creation time, the interval left out.
SnippetInsert_NoInterval(w, t, title, content, expires, dbFails) ==
    IF dbFails THEN [id |-> 0, err |-> "nil", w |-> w]
    ELSE [id |-> w.nextSnippetID, err |-> "nil",
          w |-> [w EXCEPT
                   !.snippets = [id \in DOMAIN w.snippets \cup {w.nextSnippetID} |->
                                   IF id = w.nextSnippetID
                                   THEN [title |-> title, content |-> content,
                                         created |-> t, expires |-> t]
                                   ELSE w.snippets[id]],
                   !.nextSnippetID = w.nextSnippetID + 1]]

SnippetInsert(w, t, title, content, expires, dbFails) ==
    IF dbFails THEN [id |-> 0, err |-> "nil", w |-> w]
    ELSE [id |-> w.nextSnippetID, err |-> "nil",
          w |-> [w EXCEPT
                   !.snippets = [id \in DOMAIN w.snippets \cup {w.nextSnippetID} |->
                                   IF id = w.nextSnippetID
                                   THEN [title |-> title, content |-> content,
                                         created |-> t, expires |-> t + expires]
                                   ELSE w.snippets[id]],
                   !.nextSnippetID = w.nextSnippetID + 1]]

NoSnippet == [title |-> <<>>, content |-> <<>>, created |-> 0, expires |-> 0]

\* Variant: the query has no expiry condition.
SnippetGet_IgnoresExpiry(sn, t, id, dbFails) ==
    IF dbFails THEN [snippet |-> NoSnippet, err |-> "error"]
    ELSE IF id \in DOMAIN sn
    THEN [snippet |-> sn[id], err |-> "nil"]
    ELSE [snippet |-> NoSnippet, err |-> "ErrNoRecord"]

SnippetGet(sn, t, id, dbFails) ==
    IF dbFails THEN [snippet |-> NoSnippet, err |-> "error"]
    ELSE IF id \in DOMAIN sn /\ sn[id].expires > t
    THEN [snippet |-> sn[id], err |-> "nil"]
    ELSE [snippet |-> NoSnippet, err |-> "ErrNoRecord"]

LatestLimit == 10

\* the n largest members of S, largest first
RECURSIVE TakeDesc(_, _)
TakeDesc(S, n) ==
    IF S = {} \/ n = 0 THEN <<>>
    ELSE LET m == CHOOSE x \in S : \A y \in S : y <= x
         IN  <<m>> \o TakeDesc(S \ {m}, n - 1)

\* Variant: the query has no expiry condition.
Latest_NoExpiry(sn, t, dbFails) ==
    IF dbFails THEN [ids |-> <<>>, err |-> "error"]
    ELSE [ids |-> TakeDesc(DOMAIN sn, LatestLimit), err |-> "nil"]

\* Latest: ids of the unexpired rows, ORDER BY id DESC LIMIT 10
Latest(sn, t, dbFails) ==
    IF dbFails THEN [ids |-> <<>>, err |-> "error"]
    ELSE [ids |-> TakeDesc({i \in DOMAIN sn : sn[i].expires > t}, LatestLimit),
          err |-> "nil"]

\* ------------------------------------------------------ cmd/web/helpers.go
\* A response: status, Location, the route handler that ran ("none" when
\* the chain stopped before it), the page rendered, the form's validator,
\* the flash shown, Cache-Control, whether snippets.Get was called, the
\* snippet and the list of snippet ids handed to the template, and the
\* model methods the handler called.
NoLocation == [path |-> "", id |-> -1]

\* a Location without and with a numeric last segment
Loc(path) == [path |-> path, id |-> -1]

LocID(path, id) == [path |-> path, id |-> id]

\* what a render call asked for: no call
NoRender == [status |-> 0, page |-> ""]

\* also: the snippet form handed to the template, the part of the page
\* body written ("", "partial", "complete"),
\* the status and page the handler asked render for, the Connection
\* header, and whether a panic was raised while serving
NoResp ==
    [status |-> 0, location |-> NoLocation, handler |-> "none", page |-> "",
     validator |-> NewValidator, flash |-> "", cacheControl |-> "",
     getCalled |-> FALSE, snippet |-> NoSnippet, latest |-> <<>>,
     calls |-> {}, pageBody |-> "", render |-> NoRender, connection |-> "",
     panic |-> FALSE, form |-> [Title |-> <<>>, Content |-> <<>>, Expires |-> 0]]

\* http.Error: the status is written unless a header was written before
serverError(resp) ==
    IF resp.status # 0 THEN resp
    ELSE [resp EXCEPT !.status = StatusInternalServerError, !.page = ""]

\* a panic unwinds the handler: nothing more is written
panic(resp) == [resp EXCEPT !.panic = TRUE]

clientError(resp, status) == [resp EXCEPT !.status = status, !.page = ""]

NotFound(resp) == [resp EXCEPT !.status = StatusNotFound, !.page = ""]

\* Variant: every redirect is sent as 302 Found.
Redirect_Found(resp, path, status) ==
    [resp EXCEPT !.status = 302, !.location = path]

Redirect(resp, path, status) ==
    [resp EXCEPT !.status = status, !.location = path]

\* Variant: the flash is read and left in the session.
newTemplateData_KeepsFlash(w) == [Flash |-> GetString(w.sd, "flash"), w |-> w]

\* newTemplateData pops the flash out of the session
newTemplateData(w) ==
    LET p == PopString(w.sd, "flash")
    IN  [Flash |-> p.val, w |-> [w EXCEPT !.sd = p.sd]]

\* newTemplateCache: one entry per file of ui/html/pages; the pages the
\* handlers render, unless the file of the page is missing
Pages ==
    {"home.html", "view.html", "create.html", "signup.html", "login.html",
     "password.html", "account.html"}

templateCache(r) == IF r.fail = "templateCache" THEN {} ELSE Pages

\* ts.ExecuteTemplate(buf, "base", data): a failing execution leaves the
\* part of the page it had produced in buf
ExecuteTemplate(r, page) ==
    IF r.fail = "ExecuteTemplate" THEN [buf |-> "partial", err |-> "error"]
    ELSE [buf |-> "complete", err |-> "nil"]

\* Variant: the template is executed into the response, the status first.
render_Unbuffered(r, resp, status, page, data, v) ==
    LET asked == [resp EXCEPT !.render = [status |-> status, page |-> page]]
        x == ExecuteTemplate(r, page)
        sent == [asked EXCEPT !.status = status, !.page = page,
                              !.pageBody = x.buf, !.flash = data.Flash,
                              !.validator = v]
    IN  IF page \notin templateCache(r) THEN serverError(asked)
        ELSE IF x.err # "nil" THEN serverError(sent)
        ELSE sent

\* render: the page is looked up in the cache and executed into a buffer;
\* the status and the buffer are written only then
render(r, resp, status, page, data, v) ==
    LET asked == [resp EXCEPT !.render = [status |-> status, page |-> page]]
        x == ExecuteTemplate(r, page)
    IN  IF page \notin templateCache(r) THEN serverError(asked)
        ELSE IF x.err # "nil" THEN serverError(asked)
        ELSE [asked EXCEPT !.status = status, !.page = page,
                           !.pageBody = x.buf, !.flash = data.Flash,
                           !.validator = v]

\* decodePostForm: r.ParseForm, then the form decoder fills dst; the
\* decoder fails on an int field whose value is not an integer (an empty
\* value leaves the field 0) and panics on a dst it cannot fill.
decodePostForm(r, dst) ==
    IF r.fail = "ParseForm" THEN "error"
    ELSE IF dst \notin {"snippetCreateForm", "userSignupForm", "userLoginForm",
                         "accountPasswordUpdateForm"}
            \/ r.fail = "InvalidDecoderError"
    THEN "panic"
    ELSE IF dst = "snippetCreateForm" /\ r.form.expires # <<>>
            /\ ~Atoi(r.form.expires).ok
    THEN "error"
    ELSE "nil"

\* isAuthenticated reads the flag authenticate put in the request context
isAuthenticated(r) == r.isAuthenticated

\* ---------------------------------------------------- cmd/web/handlers.go
home(r, w) ==
    LET l == Latest(w.snippets, r.now, r.fail = "snippets.Latest")
        resp == [NoResp EXCEPT !.handler = "home", !.calls = {"snippets.Latest"}]
        data == newTemplateData(w)
    IN  IF l.err # "nil"
        THEN [w |-> w, resp |-> serverError(resp)]
        ELSE [w |-> data.w,
              resp |-> render(r, [resp EXCEPT !.latest = l.ids], StatusOK,
                              "home.html", data, NewValidator)]

snippetView(r, w) ==
    LET resp == [NoResp EXCEPT !.handler = "snippetView"]
        a == Atoi(r.id)
    IN  IF ~a.ok \/ a.n < 1
        THEN [w |-> w, resp |-> NotFound(resp)]
        ELSE LET g == SnippetGet(w.snippets, r.now, a.n, r.fail = "snippets.Get")
                 called == [resp EXCEPT !.getCalled = TRUE,
                                        !.calls = {"snippets.Get"}]
                 data == newTemplateData(w)
             IN  IF g.err = "ErrNoRecord"
                 THEN [w |-> w, resp |-> NotFound(called)]
                 ELSE IF g.err # "nil"
                 THEN [w |-> w, resp |-> serverError(called)]
                 ELSE [w |-> data.w,
                       resp |-> render(r, [called EXCEPT !.snippet = g.snippet],
                                       StatusOK, "view.html", data,
                                       NewValidator)]

snippetCreate(r, w) ==
    LET resp == [NoResp EXCEPT !.handler = "snippetCreate"]
        data == newTemplateData(w)
    IN  [w |-> data.w,
         resp |-> render(r, resp, StatusOK, "create.html", data, NewValidator)]

\* Variant: the title is kept without its surrounding white space.
snippetCreateForm_TrimsTitle(r) ==
    [Title |-> TrimSpace(r.form.title), Content |-> r.form.content,
     Expires |-> Atoi(r.form.expires).n]

\* the snippetCreateForm the decoder fills: the two strings as sent, the
\* int field parsed from the text sent, left 0 when none was sent
snippetCreateForm(r) ==
    [Title |-> r.form.title, Content |-> r.form.content,
     Expires |-> Atoi(r.form.expires).n]

snippetCreatePost(r, w) ==
    LET resp == [NoResp EXCEPT !.handler = "snippetCreatePost"]
        e == Atoi(r.form.expires)
        v1 == CheckField(NewValidator, NotBlank(r.form.title), "title",
                         "This field cannot be blank")
        v2 == CheckField(v1, MaxChars(r.form.title, TitleMaxChars), "title",
                         "This field cannot be more than 100 characters long")
        v3 == CheckField(v2, NotBlank(r.form.content), "content",
                         "This field cannot be blank")
        v4 == CheckField(v3, PermittedValue(e.n, ExpiryDays), "expires",
                         "This field must equal 1, 7 or 365")
        data == newTemplateData(w)
        i == SnippetInsert(w, r.now, r.form.title, r.form.content, e.n,
                           r.fail = "snippets.Insert")
    IN  IF decodePostForm(r, "snippetCreateForm") = "panic"
        THEN [w |-> w, resp |-> panic(resp)]
        ELSE IF decodePostForm(r, "snippetCreateForm") # "nil"
        THEN [w |-> w, resp |-> clientError(resp, StatusBadRequest)]
        ELSE IF ~Valid(v4)
        THEN [w |-> data.w,
              resp |-> render(r, [resp EXCEPT !.form = snippetCreateForm(r)],
                              StatusUnprocessableEntity, "create.html", data, v4)]
        ELSE IF i.err # "nil"
        THEN [w |-> w,
              resp |-> serverError([resp EXCEPT !.calls = {"snippets.Insert"}])]
        ELSE [w |-> [i.w EXCEPT !.sd = Put(i.w.sd, "flash",
                                          "Snippet successfully created")],
              resp |-> Redirect([resp EXCEPT !.calls = {"snippets.Insert"}],
                                LocID("/snippet/view/", i.id), StatusSeeOther)]

userSignup(r, w) ==
    LET resp == [NoResp EXCEPT !.handler = "userSignup"]
        data == newTemplateData(w)
    IN  [w |-> data.w,
         resp |-> render(r, resp, StatusOK, "signup.html", data, NewValidator)]

userSignupPost(r, w) ==
    LET resp == [NoResp EXCEPT !.handler = "userSignupPost"]
        v1 == CheckField(NewValidator, NotBlank(r.form.name), "name",
                         "This field cannot be blank")
        v2 == CheckField(v1, NotBlank(r.form.email), "email",
                         "This field cannot be blank")
        v3 == CheckField(v2, MatchesEmailRX(r.form.email), "email",
                         "This field must be a valid email address")
        v4 == CheckField(v3, NotBlank(r.form.password), "password",
                         "This field cannot be blank")
        v5 == CheckField(v4, MinChars(r.form.password, PasswordMinChars), "password",
                         "This field must be at least 8 characters long")
        data == newTemplateData(w)
        i == UserInsert(w, r.form.name, r.form.email, r.form.password,
                        r.fail = "users.Insert")
        called == [resp EXCEPT !.calls = {"users.Insert"}]
    IN  IF decodePostForm(r, "userSignupForm") = "panic"
        THEN [w |-> w, resp |-> panic(resp)]
        ELSE IF decodePostForm(r, "userSignupForm") # "nil"
        THEN [w |-> w, resp |-> clientError(resp, StatusBadRequest)]
        ELSE IF ~Valid(v5)
        THEN [w |-> data.w,
              resp |-> render(r, resp, StatusUnprocessableEntity, "signup.html",
                              data, v5)]
        ELSE IF i.err = "ErrDuplicateEmail"
        THEN [w |-> data.w,
              resp |-> render(r, called, StatusUnprocessableEntity, "signup.html",
                              data,
                              AddFieldError(v5, "email",
                                            "Email address is already in use"))]
        ELSE IF i.err # "nil"
        THEN [w |-> w, resp |-> serverError(called)]
        ELSE [w |-> [i.w EXCEPT !.sd = Put(i.w.sd, "flash",
                                  "Your signup was successful. Please log in.")],
              resp |-> Redirect(called, Loc("/user/login"), StatusSeeOther)]

userLogin(r, w) ==
    LET resp == [NoResp EXCEPT !.handler = "userLogin"]
        data == newTemplateData(w)
    IN  [w |-> data.w,
         resp |-> render(r, resp, StatusOK, "login.html", data, NewValidator)]

userLoginPost(r, w) ==
    LET resp == [NoResp EXCEPT !.handler = "userLoginPost"]
        v1 == CheckField(NewValidator, NotBlank(r.form.email), "email",
                         "This field cannot be blank")
        v2 == CheckField(v1, MatchesEmailRX(r.form.email), "email",
                         "This field must be a valid email address")
        v3 == CheckField(v2, NotBlank(r.form.password), "password",
                         "This field cannot be blank")
        data == newTemplateData(w)
        a == Authenticate(w.users, r.form.email, r.form.password,
                          r.fail = "users.Authenticate")
        rn == RenewToken(w, r.held, r.fail = "RenewToken")
        w1 == [rn.w EXCEPT !.sd = Put(rn.w.sd, "authenticatedUserID", a.id)]
        p == PopString(w1.sd, "redirectPathAfterLogin")
        w2 == [w1 EXCEPT !.sd = p.sd]
    IN  IF decodePostForm(r, "userLoginForm") = "panic"
        THEN [w |-> w, resp |-> panic(resp)]
        ELSE IF decodePostForm(r, "userLoginForm") # "nil"
        THEN [w |-> w, resp |-> clientError(resp, StatusBadRequest)]
        ELSE IF ~Valid(v3)
        THEN [w |-> data.w,
              resp |-> render(r, resp, StatusUnprocessableEntity, "login.html",
                              data, v3)]
        ELSE IF a.err = "ErrInvalidCredentials"
        THEN [w |-> data.w,
              resp |-> render(r, resp, StatusUnprocessableEntity, "login.html",
                              data,
                              AddNonFieldError(v3, "Email or password is incorrect"))]
        ELSE IF a.err # "nil"
        THEN [w |-> w, resp |-> serverError(resp)]
        ELSE IF rn.err # "nil"
        THEN [w |-> w, resp |-> serverError(resp)]
        ELSE IF p.val # ""
        THEN [w |-> w2, resp |-> Redirect(resp, Loc(p.val), StatusSeeOther)]
        ELSE [w |-> w2, resp |-> Redirect(resp, Loc("/account/view"), StatusSeeOther)]

\* accountView: the account page of the session's user; routes() registers
\* no pattern for it
accountView(r, w) ==
    LET resp == [NoResp EXCEPT !.handler = "accountView",
                               !.calls = {"users.Get"}]
        userID == GetInt(w.sd, "authenticatedUserID")
        g == UserGet(w.users, userID, r.fail = "users.Get")
        data == newTemplateData(w)
    IN  IF g.err = "ErrNoRecord"
        THEN [w |-> w, resp |-> Redirect(resp, Loc("/user/login"), StatusSeeOther)]
        ELSE IF g.err # "nil"
        THEN [w |-> w, resp |-> serverError(resp)]
        ELSE [w |-> data.w,
              resp |-> render(r, resp, StatusOK, "account.html", data,
                              NewValidator)]

\* ping writes "OK"; routes() registers no pattern for it
ping(r, w) ==
    [w |-> w,
     resp |-> [NoResp EXCEPT !.handler = "ping", !.status = StatusOK,
                             !.pageBody = "OK"]]

accountPasswordUpdatePost(r, w) ==
    LET resp == [NoResp EXCEPT !.handler = "accountPasswordUpdatePost"]
        userID == GetInt(w.sd, "authenticatedUserID")
        v1 == CheckField(NewValidator, NotBlank(r.form.current_password),
                         "current_password", "This field cannot be blank")
        v2 == CheckField(v1, NotBlank(r.form.new_password), "new_password",
                         "This field cannot be blank")
        v3 == CheckField(v2, NotBlank(r.form.new_password_confirmation),
                         "new_password_confirmation", "This field cannot be blank")
        v4 == CheckField(v3, MinChars(r.form.new_password, PasswordMinChars),
                         "new_password",
                         "This field must be at least 8 characters long")
        v5 == CheckField(v4, r.form.new_password = r.form.new_password_confirmation,
                         "new_password_confirmation", "Passwords do not match")
        data == newTemplateData(w)
        u == PasswordUpdate(w.users, userID, r.form.current_password,
                            r.form.new_password, r.fail = "users.PasswordUpdate")
        called == [resp EXCEPT !.calls = {"users.PasswordUpdate"}]
        w1 == [w EXCEPT !.users = u.users]
    IN  IF decodePostForm(r, "accountPasswordUpdateForm") = "panic"
        THEN [w |-> w, resp |-> panic(resp)]
        ELSE IF decodePostForm(r, "accountPasswordUpdateForm") # "nil"
        THEN [w |-> w, resp |-> clientError(resp, StatusBadRequest)]
        ELSE IF ~Valid(v5)
        THEN [w |-> data.w,
              resp |-> render(r, resp, StatusUnprocessableEntity, "password.html",
                              data, v5)]
        ELSE IF u.err = "ErrInvalidCredentials"
        THEN [w |-> data.w,
              resp |-> render(r, called, StatusUnprocessableEntity, "password.html",
                              data,
                              AddFieldError(v5, "current_password",
                                            "Current password is incorrect"))]
        ELSE IF u.err # "nil"
        THEN [w |-> w, resp |-> serverError(called)]
        ELSE [w |-> [w1 EXCEPT !.sd = Put(w1.sd, "flash",
                                          "Password updated successfully")],
              resp |-> Redirect(called, Loc("/account/view"), StatusSeeOther)]

\* Variant: the logout handler leaves the user id in the session.
userLogoutPost_KeepsUser(r, w) ==
    LET resp == [NoResp EXCEPT !.handler = "userLogoutPost"]
        rn == RenewToken(w, r.held, r.fail = "RenewToken")
        w2 == [rn.w EXCEPT !.sd = Put(rn.w.sd, "flash",
                                      "You've been logged out successfully")]
    IN  IF rn.err # "nil"
        THEN [w |-> w, resp |-> serverError(resp)]
        ELSE [w |-> w2, resp |-> Redirect(resp, Loc("/"), StatusSeeOther)]

userLogoutPost(r, w) ==
    LET resp == [NoResp EXCEPT !.handler = "userLogoutPost"]
        rn == RenewToken(w, r.held, r.fail = "RenewToken")
        w1 == [rn.w EXCEPT !.sd = Remove(rn.w.sd, "authenticatedUserID")]
        w2 == [w1 EXCEPT !.sd = Put(w1.sd, "flash",
                                    "You've been logged out successfully")]
    IN  IF rn.err # "nil"
        THEN [w |-> w, resp |-> serverError(resp)]
        ELSE [w |-> w2, resp |-> Redirect(resp, Loc("/"), StatusSeeOther)]

\* -------------------------------------------------- cmd/web/middleware.go
\* noSurf: a POST passes only when the token it sends is the one bound to
\* the browser's CSRF cookie; a browser without the cookie is given one.
CsrfBound(cookieToken) == IF cookieToken = NoCsrf THEN CsrfReal ELSE cookieToken

VerifyToken(realToken, sentToken) == sentToken # NoCsrf /\ sentToken = realToken

\* Variant: a POST without a csrf_token value passes.
noSurf_AbsentPasses(r) ==
    IF r.method = "GET" THEN TRUE
    ELSE r.csrfSent = NoCsrf \/ VerifyToken(CsrfBound(r.csrfCookie), r.csrfSent)

noSurf(r) ==
    IF r.method = "GET" THEN TRUE
    ELSE VerifyToken(CsrfBound(r.csrfCookie), r.csrfSent)

\* Variant: the flag is set for any session holding a user id.
authenticate_NoLookup(r, w) ==
    LET id == GetInt(w.sd, "authenticatedUserID")
    IN  IF id = 0
        THEN [proceed |-> TRUE, r |-> r, resp |-> NoResp]
        ELSE [proceed |-> TRUE, r |-> [r EXCEPT !.isAuthenticated = TRUE],
              resp |-> NoResp]

\* authenticate: [proceed, r, resp]
authenticate(r, w) ==
    LET id == GetInt(w.sd, "authenticatedUserID")
        e == Exists(w.users, id, r.fail = "users.Exists")
    IN  IF id = 0
        THEN [proceed |-> TRUE, r |-> r, resp |-> NoResp]
        ELSE IF r.fail = "users.Exists panics"
        THEN [proceed |-> FALSE, r |-> r, resp |-> panic(NoResp)]
        ELSE IF e.err # "nil"
        THEN [proceed |-> FALSE, r |-> r, resp |-> serverError(NoResp)]
        ELSE IF e.exists
        THEN [proceed |-> TRUE, r |-> [r EXCEPT !.isAuthenticated = TRUE],
              resp |-> NoResp]
        ELSE [proceed |-> TRUE, r |-> r, resp |-> NoResp]

\* Variant: the guard redirects but does not return, so next still runs.
requireAuthentication_NoReturn(r, w) ==
    IF ~isAuthenticated(r)
    THEN [proceed |-> TRUE,
          w |-> [w EXCEPT !.sd = Put(w.sd, "redirectPathAfterLogin", r.path)],
          resp |-> Redirect(NoResp, Loc("/user/login"), StatusSeeOther)]
    ELSE [proceed |-> TRUE, w |-> w,
          resp |-> [NoResp EXCEPT !.cacheControl = "nostore"]]

\* Variant: the guard stores the path it redirects to, not the one requested.
requireAuthentication_StoresTarget(r, w) ==
    IF ~isAuthenticated(r)
    THEN [proceed |-> FALSE,
          w |-> [w EXCEPT !.sd = Put(w.sd, "redirectPathAfterLogin", "/user/login")],
          resp |-> Redirect(NoResp, Loc("/user/login"), StatusSeeOther)]
    ELSE [proceed |-> TRUE, w |-> w,
          resp |-> [NoResp EXCEPT !.cacheControl = "nostore"]]

\* requireAuthentication: [proceed, w, resp]
requireAuthentication(r, w) ==
    IF ~isAuthenticated(r)
    THEN [proceed |-> FALSE,
          w |-> [w EXCEPT !.sd = Put(w.sd, "redirectPathAfterLogin", r.path)],
          resp |-> Redirect(NoResp, Loc("/user/login"), StatusSeeOther)]
    ELSE [proceed |-> TRUE, w |-> w,
          resp |-> [NoResp EXCEPT !.cacheControl = "nostore"]]

\* ------------------------------------------------------ cmd/web/routes.go
DynamicRoutes ==
    {<<"GET", "/">>, <<"GET", "/snippet/view/">>,
     <<"GET", "/user/signup">>, <<"POST", "/user/signup">>,
     <<"GET", "/user/login">>, <<"POST", "/user/login">>}

ProtectedRoutes ==
    {<<"GET", "/snippet/create">>, <<"POST", "/snippet/create">>,
     <<"POST", "/user/logout">>}

Registered == DynamicRoutes \cup ProtectedRoutes

Route(r) == <<r.method, r.path>>

\* the mux: the pattern a request matches; {id} matches a non-empty segment
Matched(r) ==
    /\ Route(r) \in Registered
    /\ r.path = "/snippet/view/" => r.id # <<>>

PathKnown(r) ==
    /\ \E m \in {"GET", "POST"} : <<m, r.path>> \in Registered
    /\ r.path = "/snippet/view/" => r.id # <<>>

Handler(r, w) ==
    CASE Route(r) = <<"GET", "/">> -> home(r, w)
      [] Route(r) = <<"GET", "/snippet/view/">> -> snippetView(r, w)
      [] Route(r) = <<"GET", "/user/signup">> -> userSignup(r, w)
      [] Route(r) = <<"POST", "/user/signup">> -> userSignupPost(r, w)
      [] Route(r) = <<"GET", "/user/login">> -> userLogin(r, w)
      [] Route(r) = <<"POST", "/user/login">> -> userLoginPost(r, w)
      [] Route(r) = <<"GET", "/snippet/create">> -> snippetCreate(r, w)
      [] Route(r) = <<"POST", "/snippet/create">> -> snippetCreatePost(r, w)
      [] Route(r) = <<"POST", "/user/logout">> -> userLogoutPost(r, w)

\* protected = dynamic.Append(requireAuthentication)
Protected(r, w) ==
    IF Route(r) \in ProtectedRoutes
    THEN LET g == requireAuthentication(r, w)
             h == Handler(r, g.w)
         IN  IF ~g.proceed
             THEN [w |-> g.w, resp |-> g.resp,
                   stages |-> <<"requireAuthentication">>]
             ELSE [w |-> h.w,
                   resp |-> [h.resp EXCEPT !.cacheControl = g.resp.cacheControl],
                   stages |-> <<"requireAuthentication", "handler">>]
    ELSE Handler(r, w) @@ [stages |-> <<"handler">>]

\* Variant: the authentication guard is placed in front of noSurf.
Dynamic_GuardFirst(r, w) ==
    LET a == authenticate(r, w)
        p == Protected(a.r, w)
    IN  IF ~a.proceed
        THEN [w |-> w, resp |-> a.resp, seen |-> FALSE, reached |-> "authenticate",
              stages |-> <<"LoadAndSave", "authenticate">>]
        ELSE IF Route(r) \in ProtectedRoutes /\ ~isAuthenticated(a.r)
        THEN [p EXCEPT !.stages = <<"LoadAndSave", "authenticate">> \o @]
             @@ [seen |-> FALSE, reached |-> "next"]
        ELSE IF ~noSurf(r)
        THEN [w |-> w, resp |-> clientError(NoResp, StatusBadRequest),
              seen |-> FALSE, reached |-> "noSurf",
              stages |-> <<"LoadAndSave", "authenticate", "noSurf">>]
        ELSE [p EXCEPT !.stages = <<"LoadAndSave", "authenticate", "noSurf">> \o @]
             @@ [seen |-> isAuthenticated(a.r), reached |-> "next"]

\* dynamic = LoadAndSave, noSurf, authenticate: [w, resp, seen] where seen
\* is the is-authenticated flag the rest of the chain is given; stages
\* lists what ran, in the order it was entered
Dynamic(r, w) ==
    LET a == authenticate(r, w)
        p == Protected(a.r, w)
    IN  IF ~noSurf(r)
        THEN [w |-> w, resp |-> clientError(NoResp, StatusBadRequest),
              seen |-> FALSE, reached |-> "noSurf",
              stages |-> <<"LoadAndSave", "noSurf">>]
        ELSE IF ~a.proceed
        THEN [w |-> w, resp |-> a.resp, seen |-> FALSE, reached |-> "authenticate",
              stages |-> <<"LoadAndSave", "noSurf", "authenticate">>]
        ELSE [p EXCEPT !.stages = <<"LoadAndSave", "noSurf", "authenticate">> \o @]
             @@ [seen |-> isAuthenticated(a.r), reached |-> "next"]

\* the path the mux matches patterns against: repeated slashes collapsed
\* (the one unclean path of the inputs)
CleanPath(path) == IF path = "//user/login" THEN "/user/login" ELSE path

\* the paths under the pattern GET /static/
StaticPaths == {"/static/css/main.css", "/static/css", "/static/js/main/js"}

\* FileServerFS(ui.Files): the style sheet base.html links to is served, a
\* directory named without its slash is redirected, anything else is not
\* found
fileServer(r) ==
    IF r.path = "/static/css/main.css"
    THEN [NoResp EXCEPT !.status = StatusOK, !.handler = "fileServer"]
    ELSE IF r.path = "/static/css"
    THEN Redirect([NoResp EXCEPT !.handler = "fileServer"], Loc("css/"),
                  StatusMovedPermanently)
    ELSE NotFound([NoResp EXCEPT !.handler = "fileServer"])

\* the mux in front of the chains: an unclean path, and /static without
\* the slash of its pattern, are redirected by the mux itself
Mux(r, w) ==
    IF CleanPath(r.path) # r.path
    THEN [w |-> w,
          resp |-> Redirect(NoResp, Loc(CleanPath(r.path)), StatusMovedPermanently),
          seen |-> FALSE, reached |-> "mux", stages |-> <<>>]
    ELSE IF r.path = "/static" /\ r.method = "GET"
    THEN [w |-> w,
          resp |-> Redirect(NoResp, Loc("/static/"), StatusMovedPermanently),
          seen |-> FALSE, reached |-> "mux", stages |-> <<>>]
    ELSE IF r.path \in StaticPaths
    THEN [w |-> w,
          resp |-> IF r.method = "GET" THEN fileServer(r)
                   ELSE clientError(NoResp, StatusMethodNotAllowed),
          seen |-> FALSE, reached |-> "mux", stages |-> <<>>]
    ELSE IF Matched(r) THEN Dynamic(r, w)
    ELSE [w |-> w,
          resp |-> clientError(NoResp, IF PathKnown(r) THEN StatusMethodNotAllowed
                                       ELSE StatusNotFound),
          seen |-> FALSE, reached |-> "mux", stages |-> <<>>]

\* commonHeaders: sets the security headers, then calls next
commonHeaders(r, next) == [next EXCEPT !.stages = <<"commonHeaders">> \o @]

\* logRequest: logs the request line, then calls next
logRequest(r, next) == [next EXCEPT !.stages = <<"logRequest">> \o @]

\* Variant: the panic is not recovered.
recoverPanic_Absent(r, w, next) == next

\* recoverPanic, outermost: next is what the chain inside it did. A panic
\* unwinds LoadAndSave, so the session is not committed; the deferred
\* function sets Connection: close and calls serverError.
recoverPanic(r, w, next) ==
    IF next.resp.panic
    THEN [next EXCEPT !.w = [next.w EXCEPT !.sd = w.sd],
                      !.resp = serverError([next.resp EXCEPT !.connection = "close"]),
                      !.stages = <<"recoverPanic">> \o @]
    ELSE [next EXCEPT !.stages = <<"recoverPanic">> \o @]

\* ------------------------------------------------------------ the inputs
NameA == <<"A">>
EmailA == <<"a", "@", "x">>
EmailB == <<"b", "@", "x">>
EmailBad == <<"b", "@", "x", ".">>
Pw1 == <<"p", "a", "s", "s", "w", "o", "r", "d">>
Pw2 == <<"p", "a", "$", "$", "w", "o", "r", "d">>
PwShort == <<"p", "a", "$", "$">>
Pw7 == <<"p", "a", "s", "s", "w", "o", "r">>
TitleT == <<"T">>
ContentC == <<"C">>
TitleU == <<"U">>
Title100 == [i \in 1..TitleMaxChars |-> "a"]
Title101 == [i \in 1..(TitleMaxChars + 1) |-> "a"]
ContentD == <<"D">>

NoForm ==
    [name |-> <<>>, email |-> <<>>, password |-> <<>>,
     title |-> <<>>, content |-> <<>>, expires |-> <<>>,
     current_password |-> <<>>, new_password |-> <<>>,
     new_password_confirmation |-> <<>>]

SignupForm(n, e, p) == [NoForm EXCEPT !.name = n, !.email = e, !.password = p]

LoginForm(e, p) == [NoForm EXCEPT !.email = e, !.password = p]

SnippetForm(t, c, x) == [NoForm EXCEPT !.title = t, !.content = c, !.expires = x]

PasswordForm(cur, new, conf) ==
    [NoForm EXCEPT !.current_password = cur, !.new_password = new,
                   !.new_password_confirmation = conf]

SignupForms ==
    {SignupForm(NameA, EmailA, Pw1), SignupForm(NameA, EmailB, Pw1),
     SignupForm(<<>>, EmailA, Pw1), SignupForm(NameA, EmailBad, Pw1),
     SignupForm(NameA, <<>>, Pw1), SignupForm(NameA, EmailA, PwShort),
     SignupForm(NameA, EmailB, <<>>), SignupForm(NameA, EmailA, Pw7),
     SignupForm(<<" ">>, EmailA, Pw1)}

LoginForms ==
    {LoginForm(e, p) : e \in {EmailA, EmailB}, p \in {Pw1, Pw2}}
    \cup {LoginForm(EmailBad, Pw1), LoginForm(<<>>, Pw1), LoginForm(EmailA, <<>>)}

SnippetForms ==
    {SnippetForm(TitleT, ContentC, x) : x \in {<<"1">>, <<"7">>, <<"3", "6", "5">>}}
    \cup {SnippetForm(TitleU, ContentD, <<"7">>),
          SnippetForm(Title100, ContentC, <<"7">>),
          SnippetForm(Title101, ContentC, <<"7">>)}
    \cup {SnippetForm(<<>>, ContentC, <<"7">>), SnippetForm(<<" ">>, ContentC, <<"7">>),
          SnippetForm(TitleT, <<>>, <<"7">>), SnippetForm(TitleT, ContentC, <<"2">>),
          SnippetForm(TitleT, ContentC, <<"x">>), SnippetForm(TitleT, ContentC, <<>>)}

IdSegments ==
    {<<"1">>, <<"2">>, <<"0">>, <<"-", "1">>, <<"+", "1">>,
     <<"1", ".", "2", "3">>, <<"f", "o", "o">>, <<>>}

\* the csrf_token values a browser may send: none, a forged one, or the
\* one bound to its cookie
CsrfSendable(c) == {NoCsrf, CsrfForged} \cup {csrf[c]}

\* a POST: every form with the browser's own token and a working database;
\* a failing database and a missing or forged token with the first form
PostInputs(c, forms, first, fails) ==
    {[form |-> f, csrfSent |-> csrf[c], fail |-> "none"] : f \in forms}
    \cup {[form |-> first, csrfSent |-> csrf[c], fail |-> x] : x \in fails}
    \cup {[form |-> first, csrfSent |-> t, fail |-> "none"] : t \in CsrfSendable(c)}

\* ---------------------------------------------------------- one request
Request(c, method, path, id, in) ==
    [client |-> c, method |-> method, path |-> path, id |-> id,
     form |-> in.form, csrfSent |-> in.csrfSent, fail |-> in.fail,
     csrfCookie |-> csrf[c], presented |-> cookie[c], now |-> now,
     held |-> {cookie[x] : x \in Clients}, isAuthenticated |-> FALSE]

World(c) ==
    [sd |-> Load(store, cookie[c]), store |-> store, users |-> users,
     nextUserID |-> nextUserID, snippets |-> snippets,
     nextSnippetID |-> nextSnippetID]

\* The history after a response: a 303 from a protected route whose handler
\* did not run turned the session away; a 303 from the login or the logout
\* handler is a completed login or logout.
HistAfter(h, r, resp) ==
    LET turnedAway == /\ Route(r) \in ProtectedRoutes
                      /\ resp.handler = "none"
                      /\ resp.status = StatusSeeOther
        loggedIn == resp.handler = "userLoginPost" /\ resp.status = StatusSeeOther
        loggedOut == resp.handler = "userLogoutPost" /\ resp.status = StatusSeeOther
    IN  [requested |-> IF turnedAway THEN r.path
                       ELSE IF loggedIn THEN "" ELSE h.requested,
         loggedOut |-> IF loggedOut THEN TRUE
                       ELSE IF loggedIn THEN FALSE ELSE h.loggedOut,
         panicked |-> h.panicked \/ resp.panic]

\* routes(): the request goes through the mux and its chain, then
\* LoadAndSave commits the session and the cookies are sent.
\* what a served request leaves behind: the tables, the session store and
\* the cookies, the response
\* the response is sent: the tables and the session store are as the
\* chain left them, the session is committed and its cookie sent
Respond(r, res) ==
      \E cm \in {Commit(res.w, r.held)} :
        /\ res.w.nextUserID <= MaxUsers + 1
        /\ res.w.nextSnippetID = nextSnippetID
             \/ res.w.nextSnippetID <= MaxSnippets + 1
        /\ users' = res.w.users
        /\ nextUserID' = res.w.nextUserID
        /\ snippets' = res.w.snippets
        /\ nextSnippetID' = res.w.nextSnippetID
        /\ store' = cm.store
        /\ cookie' = IF cm.sent THEN [cookie EXCEPT ![r.client] = cm.cookie]
                     ELSE cookie
        /\ csrf' = IF Matched(r)
                   THEN [csrf EXCEPT ![r.client] = CsrfBound(csrf[r.client])]
                   ELSE csrf
        /\ last' = [kind |-> "request", client |-> r.client, method |-> r.method,
                    path |-> r.path, id |-> r.id, form |-> r.form,
                    csrfSent |-> r.csrfSent, csrfCookie |-> r.csrfCookie,
                    presented |-> r.presented, fail |-> r.fail,
                    resp |-> res.resp, seen |-> res.seen, reached |-> res.reached,
                    ops |-> res.w.sd.log, stages |-> res.stages]
        /\ hist' = [hist EXCEPT ![r.client] = HistAfter(hist[r.client], r, res.resp)]
        /\ UNCHANGED <<now, ticks, ins, validation, upd>>

\* a request served from its load to its commit with nothing in between
Served(r, res) == Respond(r, res) /\ UNCHANGED flight

Serve(r) ==
    \E next \in {logRequest(r, commonHeaders(r, Mux(r, World(r.client))))} :
      \E res \in {recoverPanic(r, World(r.client), next)} : Served(r, res)

GetInput(fail) == [form |-> NoForm, csrfSent |-> NoCsrf, fail |-> fail]

GetHome(c) ==
    \E x \in {"none", "users.Exists", "snippets.Latest"} :
        Serve(Request(c, "GET", "/", <<>>, GetInput(x)))

GetSnippetView(c) ==
    \/ \E id \in IdSegments :
          Serve(Request(c, "GET", "/snippet/view/", id, GetInput("none")))
    \/ Serve(Request(c, "GET", "/snippet/view/", <<"1">>, GetInput("snippets.Get")))

GetUserSignup(c) == Serve(Request(c, "GET", "/user/signup", <<>>, GetInput("none")))

PostUserSignup(c, forms) ==
    \E in \in PostInputs(c, forms, SignupForm(NameA, EmailA, Pw1),
                         {"users.Insert", "ParseForm"}) :
        Serve(Request(c, "POST", "/user/signup", <<>>, in))

GetUserLogin(c) == Serve(Request(c, "GET", "/user/login", <<>>, GetInput("none")))

PostUserLogin(c, forms) ==
    \E in \in PostInputs(c, forms, LoginForm(EmailA, Pw1),
                         {"users.Authenticate", "RenewToken", "ParseForm"}) :
        Serve(Request(c, "POST", "/user/login", <<>>, in))

\* account A signs up and logs in, nothing failing
\* a one-day snippet is submitted
CreateA(c) ==
    \E in \in {[form |-> SnippetForm(TitleT, ContentC, <<"1">>),
                 csrfSent |-> csrf[c], fail |-> "none"]} :
        Serve(Request(c, "POST", "/snippet/create", <<>>, in))

\* the snippet view asked for one of a few ids
GetSnippetViewOf(c, ids) ==
    \E id \in ids :
        Serve(Request(c, "GET", "/snippet/view/", id, GetInput("none")))

SignupA(c) ==
    \E in \in {[form |-> SignupForm(NameA, EmailA, Pw1), csrfSent |-> csrf[c],
                 fail |-> "none"]} :
        Serve(Request(c, "POST", "/user/signup", <<>>, in))

LoginA(c) ==
    \E in \in {[form |-> LoginForm(EmailA, Pw1), csrfSent |-> csrf[c],
                 fail |-> "none"]} :
        Serve(Request(c, "POST", "/user/login", <<>>, in))

GetSnippetCreate(c) ==
    \E x \in {"none", "users.Exists"} :
        Serve(Request(c, "GET", "/snippet/create", <<>>, GetInput(x)))

PostSnippetCreate(c, forms) ==
    \E in \in PostInputs(c, forms, SnippetForm(TitleT, ContentC, <<"7">>),
                         {"snippets.Insert", "users.Exists", "ParseForm"}) :
        Serve(Request(c, "POST", "/snippet/create", <<>>, in))

PostUserLogout(c) ==
    \E in \in PostInputs(c, {NoForm}, NoForm, {"RenewToken"}) :
        Serve(Request(c, "POST", "/user/logout", <<>>, in))

\* routes.go registers no route for accountPasswordUpdatePost: the handler
\* is called with the session loaded, as a handler test calls it
PasswordForms ==
    {PasswordForm(cur, new, new) : cur \in {Pw1, Pw2}, new \in {Pw1, Pw2}}
    \cup {PasswordForm(Pw1, Pw2, Pw1), PasswordForm(Pw1, Pw7, Pw7),
          PasswordForm(<<>>, Pw2, Pw2), PasswordForm(Pw1, <<>>, <<>>)}

CallAccountPasswordUpdatePost(c) ==
    \E in \in {[form |-> f, csrfSent |-> csrf[c], fail |-> "none"] :
                   f \in PasswordForms}
               \cup {[form |-> PasswordForm(Pw1, Pw2, Pw2), csrfSent |-> csrf[c],
                      fail |-> x] : x \in {"users.PasswordUpdate", "ParseForm"}} :
      \E r \in {Request(c, "POST", "/account/password/update", <<>>, in)} :
        \E h \in {accountPasswordUpdatePost(r, World(c))} :
          Served(r, [w |-> h.w, resp |-> h.resp, seen |-> FALSE,
                     reached |-> "next", stages |-> <<"handler">>])

CallAccountView(c) ==
    \E x \in {"none", "users.Get"} :
      \E r \in {Request(c, "GET", "/account/view", <<>>, GetInput(x))} :
        \E h \in {accountView(r, World(c))} :
          Served(r, [w |-> h.w, resp |-> h.resp, seen |-> FALSE,
                     reached |-> "next", stages |-> <<"handler">>])

\* requests during which a panic is raised: the form decoder is handed a
\* target it cannot fill; the users model panics under authenticate
Panics(c) ==
    \/ \E in \in {[form |-> SignupForm(NameA, EmailA, Pw1), csrfSent |-> csrf[c],
                    fail |-> "InvalidDecoderError"]} :
          Serve(Request(c, "POST", "/user/signup", <<>>, in))
    \/ \E in \in {[form |-> SnippetForm(TitleT, ContentC, <<"7">>),
                    csrfSent |-> csrf[c], fail |-> "InvalidDecoderError"]} :
          Serve(Request(c, "POST", "/snippet/create", <<>>, in))
    \/ Serve(Request(c, "GET", "/", <<>>, GetInput("users.Exists panics")))

\* requests whose page is not in the template cache, or fails to execute
RenderFails(c) ==
    \E x \in {"templateCache", "ExecuteTemplate"} :
        \/ Serve(Request(c, "GET", "/", <<>>, GetInput(x)))
        \/ Serve(Request(c, "GET", "/user/login", <<>>, GetInput(x)))
        \/ \E in \in {[form |-> SignupForm(<<>>, EmailA, Pw1), csrfSent |-> csrf[c],
                        fail |-> x]} :
              Serve(Request(c, "POST", "/user/signup", <<>>, in))

\* requests the mux answers itself: an unregistered path, a registered
\* path under another method
Unrouted(c) ==
    \/ Serve(Request(c, "GET", "/ping", <<>>, GetInput("none")))
    \/ Serve(Request(c, "GET", "/user/logout", <<>>, GetInput("none")))

\* requests for static files, for /static itself and for an unclean path
GetStatic(c) ==
    \/ \E path \in StaticPaths \cup {"/static", "//user/login"} :
          Serve(Request(c, "GET", path, <<>>, GetInput("none")))
    \/ \E in \in {[form |-> NoForm, csrfSent |-> csrf[c], fail |-> "none"]} :
          Serve(Request(c, "POST", "/static/css/main.css", <<>>, in))

\* ------------------------------------------------------- the environment
NoRequest ==
    [kind |-> "none", client |-> "", method |-> "", path |-> "", id |-> <<>>,
     form |-> NoForm, csrfSent |-> NoCsrf, csrfCookie |-> NoCsrf,
     presented |-> NoToken, fail |-> "none", resp |-> NoResp, seen |-> FALSE,
     reached |-> "none", ops |-> <<>>, stages |-> <<>>]

\* time passes
TickDays == {1, 7}

Tick ==
    \E d \in TickDays :
        /\ ticks < MaxTicks
        /\ now' = now + d
        /\ ticks' = ticks + 1
        /\ last' = NoRequest
        /\ UNCHANGED <<users, nextUserID, snippets, nextSnippetID, store,
                       cookie, csrf, hist, ins, validation,
                   flight, upd>>

\* a session's lifetime (12 hours) ends: the store drops it
SessionExpires ==
    \E t \in DOMAIN store :
        /\ store' = [k \in DOMAIN store \ {t} |-> store[k]]
        /\ last' = NoRequest
        /\ hist' = [c \in Clients |->
                      IF cookie[c] = t THEN [hist[c] EXCEPT !.requested = ""]
                      ELSE hist[c]]
        /\ UNCHANGED <<users, nextUserID, snippets, nextSnippetID, now, ticks,
                       cookie, csrf, ins, validation,
                   flight, upd>>

\* an account is removed from storage behind the application's back
UserRemoved ==
    \E id \in DOMAIN users :
        /\ users' = [k \in DOMAIN users \ {id} |-> users[k]]
        /\ last' = NoRequest
        /\ UNCHANGED <<nextUserID, snippets, nextSnippetID, now, ticks, store,
                       cookie, csrf, hist, ins, validation,
                   flight, upd>>

\* ------------------------------------------------------ the specification
NumInserts == 2
Procs == 1..NumInserts

\* the requests sent while others may be in flight
MaxFlights == 5

\* the requests that can be in flight together
Slots == {"s1", "s2"}

\* a slot with no request in it
NoFlight ==
    [phase |-> "idle",
     r |-> [client |-> "", method |-> "", path |-> "", id |-> <<>>,
            form |-> NoForm, csrfSent |-> NoCsrf, fail |-> "none",
            csrfCookie |-> NoCsrf, presented |-> NoToken, now |-> 0, held |-> {},
            isAuthenticated |-> FALSE],
     sd |-> Load(<<>>, NoToken), resp |-> NoResp]

\* the callers of PasswordUpdate
Updaters == {"u1", "u2"}

IdleUpdate == [pc |-> "idle", id |-> 0, current_password |-> <<>>,
               new_password |-> <<>>, currentHash |-> GenerateFromPassword(<<>>),
               err |-> "nil"]

IdleInsert == [pc |-> "idle", email |-> <<>>, hashed |-> GenerateFromPassword(<<>>),
               dberr |-> "nil", err |-> "nil"]

\* a snippets table of up to MaxRows rows created at day 0, up to
\* MaxShortLived of them with an expiry of 1 day, the others of 7 days
MaxRows == 12
MaxShortLived == 2

InitLatest ==
    /\ users = <<>>
    /\ nextUserID = 1
    /\ \E n \in 0..MaxRows :
         /\ \E short \in {S \in SUBSET (1..n) : Cardinality(S) <= MaxShortLived} :
              snippets = [i \in 1..n |->
                            [title |-> TitleT, content |-> ContentC, created |-> 0,
                             expires |-> IF i \in short THEN 1 ELSE 7]]
         /\ nextSnippetID = n + 1
    /\ now = 0
    /\ ticks = 0
    /\ store = <<>>
    /\ cookie = [c \in Clients |-> NoToken]
    /\ csrf = [c \in Clients |-> NoCsrf]
    /\ last = NoRequest
    /\ hist = [c \in Clients |-> [requested |-> "", loggedOut |-> FALSE,
                                 panicked |-> FALSE]]
    /\ ins = [p \in Procs |-> IdleInsert]
    /\ validation = [v |-> NewValidator, calls |-> <<>>]
    /\ flight = [slots |-> [s \in Slots |-> NoFlight], retired |-> {}, begun |-> 0]
    /\ upd = [p \in Updaters |-> IdleUpdate]

\* calls on one Validator
MaxCalls == 4
FieldKeys == {"title", "content"}
Messages == {"This field cannot be blank", ""}

CheckFieldCall(ok, key, message) ==
    /\ Len(validation.calls) < MaxCalls
    /\ validation' = [v |-> CheckField(validation.v, ok, key, message),
                      calls |-> Append(validation.calls,
                                       [op |-> "CheckField", ok |-> ok,
                                        key |-> key, message |-> message])]
    /\ UNCHANGED <<users, nextUserID, snippets, nextSnippetID, now, ticks,
                   store, cookie, csrf, last, hist, ins, flight, upd>>

AddFieldErrorCall(key, message) ==
    /\ Len(validation.calls) < MaxCalls
    /\ validation' = [v |-> AddFieldError(validation.v, key, message),
                      calls |-> Append(validation.calls,
                                       [op |-> "AddFieldError", ok |-> FALSE,
                                        key |-> key, message |-> message])]
    /\ UNCHANGED <<users, nextUserID, snippets, nextSnippetID, now, ticks,
                   store, cookie, csrf, last, hist, ins, flight, upd>>

AddNonFieldErrorCall(message) ==
    /\ Len(validation.calls) < MaxCalls
    /\ validation' = [v |-> AddNonFieldError(validation.v, message),
                      calls |-> Append(validation.calls,
                                       [op |-> "AddNonFieldError", ok |-> FALSE,
                                        key |-> "", message |-> message])]
    /\ UNCHANGED <<users, nextUserID, snippets, nextSnippetID, now, ticks,
                   store, cookie, csrf, last, hist, ins, flight, upd>>

Init ==
    /\ users = <<>>
    /\ nextUserID = 1
    /\ snippets = <<>>
    /\ nextSnippetID = 1
    /\ now = 0
    /\ ticks = 0
    /\ store = <<>>
    /\ cookie = [c \in Clients |-> NoToken]
    /\ csrf = [c \in Clients |-> NoCsrf]
    /\ last = NoRequest
    /\ hist = [c \in Clients |-> [requested |-> "", loggedOut |-> FALSE,
                                 panicked |-> FALSE]]
    /\ ins = [p \in Procs |-> IdleInsert]
    /\ validation = [v |-> NewValidator, calls |-> <<>>]
    /\ flight = [slots |-> [s \in Slots |-> NoFlight], retired |-> {}, begun |-> 0]
    /\ upd = [p \in Updaters |-> IdleUpdate]

\* ------------------------------------------- UserModel.Insert, in steps
\* Insert is called: the password is hashed, the statement not yet sent.
InsertCall(p) ==
    \E e \in {EmailA, EmailB} :
        /\ ins[p].pc = "idle"
        /\ ins' = [ins EXCEPT ![p] = [pc |-> "exec", email |-> e,
                                      hashed |-> GenerateFromPassword(Pw1),
                                      dberr |-> "nil", err |-> "nil"]]
        /\ UNCHANGED <<users, nextUserID, snippets, nextSnippetID, now, ticks,
                       store, cookie, csrf, last, hist, validation,
                   flight, upd>>

\* DB.Exec runs the INSERT statement
InsertExec(p) ==
    \E dbFails \in BOOLEAN :
      \E x \in {ExecInsertUser([users |-> users, nextUserID |-> nextUserID],
                               NameA, ins[p].email, ins[p].hashed, dbFails)} :
        /\ ins[p].pc = "exec"
        /\ users' = x.w.users
        /\ nextUserID' = x.w.nextUserID
        /\ ins' = [ins EXCEPT ![p].pc = "ret", ![p].dberr = x.dberr]
        /\ UNCHANGED <<snippets, nextSnippetID, now, ticks, store, cookie, csrf,
                       last, hist, validation,
                   flight, upd>>

\* Insert inspects the error and returns
InsertReturn(p) ==
    /\ ins[p].pc = "ret"
    /\ ins' = [ins EXCEPT ![p].pc = "done", ![p].err = InsertError(ins[p].dberr)]
    /\ UNCHANGED <<users, nextUserID, snippets, nextSnippetID, now, ticks,
                   store, cookie, csrf, last, hist, validation,
                   flight, upd>>

\* Spec: the account and session flows (signup, login, logout, the
\* guarded snippet form), with sessions expiring and accounts removed.
\* the signup forms of two accounts, and two that are refused
AccountForms ==
    {SignupForm(NameA, EmailA, Pw1), SignupForm(NameA, EmailB, Pw1),
     SignupForm(<<>>, EmailA, Pw1), SignupForm(NameA, EmailBad, Pw1)}

\* SpecSignup: signup forms of every kind are submitted, accounts removed.
NextSignup ==
    \/ \E c \in Clients : GetUserSignup(c)
    \/ \E c \in Clients : PostUserSignup(c, SignupForms)
    \/ UserRemoved

SpecSignup == Init /\ [][NextSignup]_vars

Next ==
    \/ \E c \in Clients : GetHome(c)
    \/ \E c \in Clients : GetUserSignup(c)
    \/ \E c \in Clients : PostUserSignup(c, AccountForms)
    \/ \E c \in Clients : GetUserLogin(c)
    \/ \E c \in Clients : PostUserLogin(c, LoginForms)
    \/ \E c \in Clients : GetSnippetCreate(c)
    \/ \E c \in Clients : PostUserLogout(c)
    \/ \E c \in Clients : Unrouted(c)
    \/ SessionExpires
    \/ UserRemoved

Spec == Init /\ [][Next]_vars

\* SpecProtected: one account; the protected routes with every POST route,
\* sessions expiring and the account being removed.
NextProtected ==
    \/ \E c \in Clients : PostUserSignup(c, {SignupForm(NameA, EmailA, Pw1)})
    \/ \E c \in Clients : PostUserLogin(c, {LoginForm(EmailA, Pw1),
                                            LoginForm(EmailA, Pw2)})
    \/ \E c \in Clients : GetSnippetCreate(c)
    \/ \E c \in Clients : PostSnippetCreate(c, {SnippetForm(TitleT, ContentC, <<"7">>),
                                                SnippetForm(<<>>, ContentC, <<"7">>)})
    \/ \E c \in Clients : PostUserLogout(c)
    \/ SessionExpires
    \/ UserRemoved

SpecProtected == Init /\ [][NextProtected]_vars

\* PasswordUpdate is called for a stored user
UpdateCall(p) ==
    \E id \in DOMAIN users, cur \in {Pw1, Pw2}, new \in {Pw1, Pw2} :
        /\ upd[p].pc = "idle"
        /\ upd' = [upd EXCEPT ![p] = [IdleUpdate EXCEPT
                                        !.pc = "select", !.id = id,
                                        !.current_password = cur,
                                        !.new_password = new]]
        /\ UNCHANGED <<users, nextUserID, snippets, nextSnippetID, now, ticks,
                       store, cookie, csrf, last, hist, ins, validation, flight>>

\* QueryRow runs the SELECT and scans the stored hash into currentHash
UpdateSelect(p) ==
    \E dbFails \in BOOLEAN :
        /\ upd[p].pc = "select"
        /\ upd' = [upd EXCEPT ![p] =
                     IF dbFails THEN [upd[p] EXCEPT !.pc = "done", !.err = "error"]
                     ELSE IF upd[p].id \notin DOMAIN users
                     THEN [upd[p] EXCEPT !.pc = "done",
                                         !.err = "ErrInvalidCredentials"]
                     ELSE [upd[p] EXCEPT
                             !.pc = "compare",
                             !.currentHash = users[upd[p].id].hashed_password]]
        /\ UNCHANGED <<users, nextUserID, snippets, nextSnippetID, now, ticks,
                       store, cookie, csrf, last, hist, ins, validation, flight>>

\* the current password is compared with currentHash
UpdateCompare(p) ==
    /\ upd[p].pc = "compare"
    /\ upd' = [upd EXCEPT ![p] =
                 IF CompareHashAndPassword(upd[p].currentHash,
                                           upd[p].current_password)
                 THEN [upd[p] EXCEPT !.pc = "exec"]
                 ELSE [upd[p] EXCEPT !.pc = "done",
                                     !.err = "ErrInvalidCredentials"]]
    /\ UNCHANGED <<users, nextUserID, snippets, nextSnippetID, now, ticks,
                   store, cookie, csrf, last, hist, ins, validation, flight>>

\* DB.Exec runs the UPDATE with the hash of the new password; the call
\* returns
UpdateExec(p) ==
    \E dbFails \in BOOLEAN :
        /\ upd[p].pc = "exec"
        /\ users' = IF dbFails \/ upd[p].id \notin DOMAIN users THEN users
                    ELSE [users EXCEPT ![upd[p].id].hashed_password =
                                          GenerateFromPassword(upd[p].new_password)]
        /\ upd' = [upd EXCEPT ![p].pc = "done",
                              ![p].err = IF dbFails THEN "error" ELSE "nil"]
        /\ UNCHANGED <<nextUserID, snippets, nextSnippetID, now, ticks,
                       store, cookie, csrf, last, hist, ins, validation, flight>>

\* the caller may call again
UpdateReturn(p) ==
    /\ upd[p].pc = "done"
    /\ upd' = [upd EXCEPT ![p] = IdleUpdate]
    /\ UNCHANGED <<users, nextUserID, snippets, nextSnippetID, now, ticks,
                   store, cookie, csrf, last, hist, ins, validation, flight>>

\* SpecUpdate: one account signs up; two callers run PasswordUpdate,
\* interleaved at the statement.
NextUpdate ==
    \/ \E c \in Clients : SignupA(c)
    \/ \E p \in Updaters : UpdateCall(p)
    \/ \E p \in Updaters : UpdateSelect(p)
    \/ \E p \in Updaters : UpdateCompare(p)
    \/ \E p \in Updaters : UpdateExec(p)
    \/ \E p \in Updaters : UpdateReturn(p)

SpecUpdate == Init /\ [][NextUpdate]_vars

\* the requests sent while others are in flight
FlightKinds ==
    {[method |-> "POST", path |-> "/user/signup", form |-> SignupForm(NameA, EmailA, Pw1)],
     [method |-> "POST", path |-> "/user/login", form |-> LoginForm(EmailA, Pw1)],
     [method |-> "GET", path |-> "/", form |-> NoForm],
     [method |-> "POST", path |-> "/snippet/create",
      form |-> SnippetForm(TitleT, ContentC, <<"7">>)],
     [method |-> "POST", path |-> "/user/logout", form |-> NoForm]}

\* LoadAndSave loads the session of the request's cookie into the request's
\* context: the request works on this copy until its commit
Begin(c, slot) ==
    \E k \in FlightKinds :
      \E r \in {Request(c, k.method, k.path, <<>>,
                         [form |-> k.form, csrfSent |-> csrf[c], fail |-> "none"])} :
        /\ flight.slots[slot].phase # "loaded"
        /\ flight.begun < MaxFlights
        /\ flight' = [flight EXCEPT !.begun = @ + 1, !.slots =
                         [s \in Slots |->
                            IF s = slot
                            THEN [phase |-> "loaded", r |-> r,
                                  sd |-> Load(store, cookie[c]), resp |-> NoResp]
                            ELSE IF flight.slots[s].phase = "done" THEN NoFlight
                            ELSE flight.slots[s]]]
        /\ UNCHANGED <<users, nextUserID, snippets, nextSnippetID, now, ticks,
                       store, cookie, csrf, last, hist, ins, validation, upd>>

\* the tokens a new random token differs from: those the browsers hold,
\* those in-flight requests loaded, those logouts retired
TokensSeen ==
    {cookie[x] : x \in Clients} \cup {flight.slots[s].sd.token : s \in Slots}
    \cup flight.retired

\* the rest of the chain and the handler run on the copy loaded at Begin,
\* against the tables and the store as they are now; LoadAndSave commits
\* the copy under its token. A completed logout retires the token its
\* session was loaded under.
Finish(slot) ==
    /\ flight.slots[slot].phase = "loaded"
    /\ \E t \in TokenPool : t \notin DOMAIN store /\ t \notin TokensSeen
    /\ \E f \in {flight.slots[slot]} :
         \E r \in {[f.r EXCEPT !.held = TokensSeen]} :
           \E w \in {[World(r.client) EXCEPT !.sd = f.sd]} :
             \E res \in {recoverPanic(r, w,
                                      logRequest(r, commonHeaders(r, Mux(r, w))))} :
               /\ Respond(r, res)
               /\ flight' =
                    [begun |-> flight.begun,
                     slots |-> [flight.slots EXCEPT
                                  ![slot] = [f EXCEPT !.phase = "done",
                                                      !.resp = res.resp]],
                     retired |->
                         flight.retired
                         \cup (IF res.resp.handler = "userLogoutPost"
                                  /\ res.resp.status = StatusSeeOther
                               THEN {f.sd.token} ELSE {})]

\* SpecFlight: one browser sends requests without waiting for the answers:
\* up to two are in flight, interleaved between load and commit.
NextFlight ==
    \/ \E c \in Clients, slot \in Slots : Begin(c, slot)
    \/ \E slot \in Slots : Finish(slot)

SpecFlight == Init /\ [][NextFlight]_vars

\* the two lookups by id: a snippet by the id of the path, the user by the
\* id of the session
NextLookup ==
    \/ \E c \in Clients : SignupA(c)
    \/ \E c \in Clients : LoginA(c)
    \/ \E c \in Clients : CreateA(c)
    \/ \E c \in Clients : GetSnippetViewOf(c, {<<"1">>})
    \/ \E c \in Clients : CallAccountView(c)
    \/ Tick
    \/ UserRemoved

SpecLookup == Init /\ [][NextLookup]_vars

\* every kind of answer: pages, redirects, refusals, faults, the mux's own
\* answers and the file server's
NextStatus ==
    \/ \E c \in Clients : PostUserSignup(c, {SignupForm(NameA, EmailA, Pw1),
                                             SignupForm(<<>>, EmailA, Pw1)})
    \/ \E c \in Clients : PostUserLogin(c, {LoginForm(EmailA, Pw1)})
    \/ \E c \in Clients : GetHome(c)
    \/ \E c \in Clients : GetSnippetView(c)
    \/ \E c \in Clients : GetSnippetCreate(c)
    \/ \E c \in Clients : PostUserLogout(c)
    \/ \E c \in Clients : Unrouted(c)
    \/ \E c \in Clients : GetStatic(c)

SpecStatus == Init /\ [][NextStatus]_vars

\* the snippet forms of each lifetime on offer
LifetimeForms ==
    {SnippetForm(TitleT, ContentC, x) : x \in {<<"1">>, <<"7">>, <<"3", "6", "5">>}}
    \cup {SnippetForm(TitleU, ContentD, <<"7">>)}

\* SpecCreate: one account signs up and logs in, and submits snippet forms
\* of every kind.
NextCreate ==
    \/ \E c \in Clients : PostUserSignup(c, {SignupForm(NameA, EmailA, Pw1)})
    \/ \E c \in Clients : PostUserLogin(c, {LoginForm(EmailA, Pw1)})
    \/ \E c \in Clients : PostSnippetCreate(c, SnippetForms)

SpecCreate == Init /\ [][NextCreate]_vars

\* SpecSnippets: one account signs up and logs in; snippets are created
\* and viewed while time passes.
NextSnippets ==
    \/ \E c \in Clients : SignupA(c)
    \/ \E c \in Clients : LoginA(c)
    \/ \E c \in Clients : PostSnippetCreate(c, LifetimeForms)
    \/ \E c \in Clients : GetSnippetView(c)
    \/ \E c \in Clients : GetHome(c)
    \/ Tick

SpecSnippets == Init /\ [][NextSnippets]_vars

\* SpecPassword: two accounts; either logs in and changes its password.
NextPassword ==
    \/ \E c \in Clients : PostUserSignup(c, {SignupForm(NameA, EmailA, Pw1),
                                             SignupForm(NameA, EmailB, Pw1)})
    \/ \E c \in Clients : PostUserLogin(c, {LoginForm(e, p) :
                                              e \in {EmailA, EmailB},
                                              p \in {Pw1, Pw2}})
    \/ \E c \in Clients : CallAccountPasswordUpdatePost(c)
    \/ \E c \in Clients : PostUserLogout(c)

SpecPassword == Init /\ [][NextPassword]_vars

\* SpecValidator: any sequence of calls on one Validator.
NextValidator ==
    \/ \E ok \in BOOLEAN, key \in FieldKeys, message \in Messages :
          CheckFieldCall(ok, key, message)
    \/ \E key \in FieldKeys, message \in Messages : AddFieldErrorCall(key, message)
    \/ \E message \in Messages : AddNonFieldErrorCall(message)

SpecValidator == Init /\ [][NextValidator]_vars

\* SpecLatest: the home page lists a table of many rows while time passes.
NextLatest ==
    \/ \E c \in Clients : GetHome(c)
    \/ Tick

SpecLatest == InitLatest /\ [][NextLatest]_vars

\* SpecFaults: one account signs up and logs in; panics are raised and
\* pages fail to render.
NextFaults ==
    \/ \E c \in Clients : PostUserSignup(c, {SignupForm(NameA, EmailA, Pw1),
                                             SignupForm(<<>>, EmailA, Pw1)})
    \/ \E c \in Clients : PostUserLogin(c, {LoginForm(EmailA, Pw1),
                                            LoginForm(EmailA, Pw2)})
    \/ \E c \in Clients : GetHome(c)
    \/ \E c \in Clients : GetUserLogin(c)
    \/ \E c \in Clients : Panics(c)
    \/ \E c \in Clients : RenderFails(c)

SpecFaults == Init /\ [][NextFaults]_vars

\* SpecInsert: concurrent calls of UserModel.Insert, interleaved at the
\* statement.
NextInsert ==
    \/ \E p \in Procs : InsertCall(p)
    \/ \E p \in Procs : InsertExec(p)
    \/ \E p \in Procs : InsertReturn(p)

SpecInsert == Init /\ [][NextInsert]_vars

\* ================================================================ claims
\* What a browser's session holds in a given store, under a given cookie.
SessionValues(st, ck, c) == IF ck[c] \in DOMAIN st THEN st[ck[c]] ELSE EmptyValues

HeldUserID(values) ==
    IF "authenticatedUserID" \in DOMAIN values
    THEN values["authenticatedUserID"] ELSE 0

HeldPath(values) ==
    IF "redirectPathAfterLogin" \in DOMAIN values
    THEN values["redirectPathAfterLogin"] ELSE ""

\* The request passes the CSRF check: a GET, or a POST whose csrf_token is
\* the token of the browser's CSRF cookie.
PassesCsrf(l) ==
    l.method = "GET" \/ (l.csrfSent # NoCsrf /\ l.csrfSent = l.csrfCookie)

\* The session a request arrives with is not authenticated: it holds no
\* user id, or the id of a user no longer stored (and the lookup answers).
Unauthenticated(c, fail) ==
    LET uid == HeldUserID(SessionValues(store, cookie, c))
    IN  uid = 0 \/ (uid \notin DOMAIN users /\ fail # "users.Exists")

ProtectedRequest(l) ==
    l.kind = "request" /\ <<l.method, l.path>> \in ProtectedRoutes

\* C1 (amended): on GET/POST /snippet/create and POST /user/logout a request
\* of an unauthenticated session never reaches the handler and inserts no
\* snippet; when it passes the CSRF check the requested path is stored in
\* the session under redirectPathAfterLogin and the response is 303 to
\* /user/login. No request of a session without a stored user inserts a
\* snippet.
C1_GuardTurnsAway ==
    [][\A c \in Clients :
         /\ (ProtectedRequest(last') /\ last'.client = c
               /\ Unauthenticated(c, last'.fail))
            => /\ last'.resp.handler = "none"
               /\ snippets' = snippets
               /\ PassesCsrf(last')
                  => /\ last'.resp.status = StatusSeeOther
                     /\ last'.resp.location = Loc("/user/login")
                     /\ HeldPath(SessionValues(store', cookie', c)) = last'.path
         /\ (last'.kind = "request" /\ last'.client = c /\ snippets' # snippets)
            => HeldUserID(SessionValues(store, cookie, c)) \in DOMAIN users
      ]_vars

\* C1 as stated: every request of an unauthenticated session to a protected
\* route has its path stored and is answered 303 to /user/login.
C1_AsStated ==
    [][\A c \in Clients :
         (ProtectedRequest(last') /\ last'.client = c
            /\ Unauthenticated(c, last'.fail))
         => /\ last'.resp.handler = "none"
            /\ snippets' = snippets
            /\ last'.resp.status = StatusSeeOther
            /\ last'.resp.location = Loc("/user/login")
            /\ HeldPath(SessionValues(store', cookie', c)) = last'.path
      ]_vars

\* a POST /snippet/create was turned away and its path is in the session
C1_Witness ==
    /\ ProtectedRequest(last) /\ last.method = "POST"
    /\ last.path = "/snippet/create"
    /\ last.resp.status = StatusSeeOther
    /\ last.resp.location = Loc("/user/login")
    /\ last.resp.handler = "none"
    /\ HeldPath(SessionValues(store, cookie, last.client)) = "/snippet/create"

LoginRequest(l) ==
    l.kind = "request" /\ l.method = "POST" /\ l.path = "/user/login"

\* C2: when a session was turned away from protected path P, the next
\* successful POST /user/login of that session answers 303 with Location P,
\* P being the path stored most recently.
C2_LoginReturnsToRequested ==
    [][\A c \in Clients :
         (LoginRequest(last') /\ last'.client = c
            /\ last'.resp.handler = "userLoginPost"
            /\ last'.resp.status = StatusSeeOther
            /\ hist[c].requested # "")
         => /\ last'.resp.location = Loc(hist[c].requested)
            /\ HeldPath(SessionValues(store', cookie', c)) = ""
      ]_vars

\* a login was answered with a redirect back to /snippet/create
C2_Witness ==
    /\ LoginRequest(last)
    /\ last.resp.handler = "userLoginPost"
    /\ last.resp.status = StatusSeeOther
    /\ last.resp.location = Loc("/snippet/create")
    /\ hist[last.client].requested = ""

\* the login form checks of userLoginPost
PassesLoginChecks(f) ==
    NotBlank(f.email) /\ MatchesEmailRX(f.email) /\ NotBlank(f.password)

UnknownEmail(us, email) == \A i \in DOMAIN us : us[i].email # email

WrongPassword(us, email, password) ==
    \E i \in DOMAIN us :
        us[i].email = email /\ us[i].hashed_password # GenerateFromPassword(password)

\* C3: a POST /user/login whose form passes the checks gets the same outcome
\* for an unknown email as for a known email with a wrong password: 422, the
\* one non-field error "Email or password is incorrect", no field error;
\* Authenticate returns ErrInvalidCredentials in both cases.
C3_LoginDoesNotTellEmails ==
    [][/\ (LoginRequest(last') /\ last'.resp.handler = "userLoginPost"
             /\ last'.fail = "none" /\ PassesLoginChecks(last'.form)
             /\ (\/ UnknownEmail(users, last'.form.email)
                 \/ WrongPassword(users, last'.form.email, last'.form.password)))
          => /\ last'.resp.status = StatusUnprocessableEntity
             /\ last'.resp.page = "login.html"
             /\ last'.resp.location = NoLocation
             /\ last'.resp.validator.NonFieldErrors
                  = <<"Email or password is incorrect">>
             /\ DOMAIN last'.resp.validator.FieldErrors = {}
             /\ users' = users
             /\ \A c \in Clients :
                  HeldUserID(SessionValues(store', cookie', c))
                    = HeldUserID(SessionValues(store, cookie, c))
       /\ \A e \in {EmailA, EmailB}, pw \in {Pw1, Pw2} :
            (UnknownEmail(users, e) \/ WrongPassword(users, e, pw))
            => Authenticate(users, e, pw, FALSE)
                 = [id |-> 0, err |-> "ErrInvalidCredentials"]
      ]_vars

\* a login with a stored email and a wrong password was refused
C3_Witness ==
    /\ LoginRequest(last)
    /\ PassesLoginChecks(last.form)
    /\ WrongPassword(users, last.form.email, last.form.password)
    /\ last.resp.status = StatusUnprocessableEntity
    /\ last.resp.validator.NonFieldErrors = <<"Email or password is incorrect">>

\* call a comes before every call b in the session log, and b is there
CalledBefore(log, a, b) ==
    /\ \E j \in DOMAIN log : log[j] = b
    /\ \E i \in DOMAIN log : log[i] = a /\ \A j \in DOMAIN log : log[j] = b => i < j

\* C4: after a POST /user/login whose credentials Authenticate accepts (the
\* session store working), the session token differs from the one presented,
\* the presented token identifies no session, the session holds the id
\* Authenticate returned, and the token was renewed before the id was put.
C4_LoginRotatesToken ==
    [][\A c \in Clients :
         (LoginRequest(last') /\ last'.client = c
            /\ last'.resp.handler = "userLoginPost"
            /\ last'.fail = "none" /\ PassesLoginChecks(last'.form)
            /\ Authenticate(users, last'.form.email, last'.form.password,
                            FALSE).err = "nil")
         => /\ last'.resp.status = StatusSeeOther
            /\ cookie'[c] # last'.presented
            /\ cookie'[c] \in DOMAIN store'
            /\ last'.presented \notin DOMAIN store'
            /\ HeldUserID(SessionValues(store', cookie', c))
                 = Authenticate(users, last'.form.email, last'.form.password,
                                FALSE).id
            /\ HeldUserID(SessionValues(store', cookie', c)) # 0
            /\ CalledBefore(last'.ops, <<"RenewToken", "">>,
                            <<"Put", "authenticatedUserID">>)
      ]_vars

\* a session that presented a token logged in and now has another token
C4_Witness ==
    /\ LoginRequest(last)
    /\ last.resp.handler = "userLoginPost"
    /\ last.resp.status = StatusSeeOther
    /\ last.presented \in TokenPool
    /\ cookie[last.client] \in TokenPool \ {last.presented}
    /\ HeldUserID(SessionValues(store, cookie, last.client)) \in DOMAIN users

LogoutRequest(l) ==
    l.kind = "request" /\ l.method = "POST" /\ l.path = "/user/logout"

TurnedAway(l) ==
    /\ l.resp.handler = "none"
    /\ l.resp.status = StatusSeeOther
    /\ l.resp.location = Loc("/user/login")

\* C5 (amended): a POST /user/logout of an authenticated session that
\* passes the CSRF check (the session store working) is answered 303 to /,
\* leaves the session without authenticatedUserID and under another token
\* than the one presented; from then until a successful login no request of
\* that session reaches a protected handler, and each that passes the CSRF
\* check is redirected 303 to /user/login.
C5_LogoutEndsAuthentication ==
    [][\A c \in Clients :
         /\ (LogoutRequest(last') /\ last'.client = c /\ PassesCsrf(last')
               /\ last'.fail = "none"
               /\ HeldUserID(SessionValues(store, cookie, c)) \in DOMAIN users)
            => /\ last'.resp.handler = "userLogoutPost"
               /\ last'.resp.status = StatusSeeOther
               /\ last'.resp.location = Loc("/")
               /\ HeldUserID(SessionValues(store', cookie', c)) = 0
               /\ cookie'[c] # last'.presented
               /\ last'.presented \notin DOMAIN store'
               /\ hist'[c].loggedOut
         /\ (hist[c].loggedOut /\ ProtectedRequest(last') /\ last'.client = c)
            => /\ last'.resp.handler = "none"
               /\ PassesCsrf(last') => TurnedAway(last')
      ]_vars

\* C5 as stated: after the logout every later request of the session to a
\* protected route is redirected 303 to /user/login until a login succeeds.
C5_AsStated ==
    [][\A c \in Clients :
         (hist[c].loggedOut /\ ProtectedRequest(last') /\ last'.client = c)
         => TurnedAway(last')
      ]_vars

\* a session that logged out asked for GET /snippet/create and was turned away
C5_Witness ==
    /\ ProtectedRequest(last) /\ last.path = "/snippet/create"
    /\ hist[last.client].loggedOut
    /\ last.method = "GET"
    /\ TurnedAway(last)
    /\ cookie[last.client] \in DOMAIN store

\* C6: on a request through the dynamic chain the flag the handler sees is
\* true iff the session holds a non-zero authenticatedUserID whose user is
\* stored; a session whose user was removed is turned away from protected
\* routes; when Exists fails the response is 500 and nothing after
\* authenticate runs.
C6_FlagFollowsStoredUser ==
    [][\A c \in Clients :
         (last'.kind = "request" /\ last'.client = c /\ Matched(last')
            /\ PassesCsrf(last'))
         => LET uid == HeldUserID(SessionValues(store, cookie, c))
                lookupFails == uid # 0 /\ last'.fail = "users.Exists"
            IN  /\ lookupFails
                   => /\ last'.resp.status = StatusInternalServerError
                      /\ last'.resp.handler = "none"
                      /\ last'.reached = "authenticate"
                      /\ users' = users /\ snippets' = snippets
                      /\ store' = store
                /\ ~lookupFails
                   => /\ last'.reached = "next"
                      /\ last'.seen <=> (uid # 0 /\ uid \in DOMAIN users)
                /\ (~lookupFails /\ uid # 0 /\ uid \notin DOMAIN users
                      /\ ProtectedRequest(last'))
                   => TurnedAway(last')
      ]_vars

\* a session still holding the id of a removed user was served the home
\* page as unauthenticated
C6_Witness ==
    /\ last.kind = "request" /\ last.path = "/"
    /\ last.resp.status = StatusOK
    /\ ~last.seen
    /\ HeldUserID(SessionValues(store, cookie, last.client)) # 0
    /\ HeldUserID(SessionValues(store, cookie, last.client)) \notin DOMAIN users

\* C7: a POST to a dynamic route whose csrf_token is absent or is not the
\* token of the requester's CSRF cookie gets 400 and its handler does not
\* run: users, snippets and sessions stay as they were.
C7_CsrfFailureChangesNothing ==
    [][(last'.kind = "request" /\ last'.method = "POST" /\ Matched(last')
          /\ (last'.csrfSent = NoCsrf \/ last'.csrfSent # last'.csrfCookie))
       => /\ last'.resp.status = StatusBadRequest
          /\ last'.resp.handler = "none"
          /\ last'.reached = "noSurf"
          /\ users' = users /\ nextUserID' = nextUserID
          /\ snippets' = snippets /\ nextSnippetID' = nextSnippetID
          /\ store' = store /\ cookie' = cookie
      ]_vars

\* a logged-in session posted a valid snippet under a forged token
C7_Witness ==
    /\ last.kind = "request" /\ last.method = "POST"
    /\ last.path = "/snippet/create"
    /\ last.csrfSent = CsrfForged
    /\ last.form = SnippetForm(TitleT, ContentC, <<"7">>)
    /\ HeldUserID(SessionValues(store, cookie, last.client)) \in DOMAIN users
    /\ last.resp.status = StatusBadRequest

SignupRequest(l) ==
    l.kind = "request" /\ l.method = "POST" /\ l.path = "/user/signup"

\* the field checks of userSignupPost
PassesSignupChecks(f) ==
    /\ NotBlank(f.name) /\ NotBlank(f.email) /\ MatchesEmailRX(f.email)
    /\ NotBlank(f.password) /\ MinChars(f.password, PasswordMinChars)

\* C8: while the user a signup with email e created is stored, a later
\* signup with e that passes field validation (the database working) gets
\* 422 with a field error on email, creates no user, sets no flash and
\* leaves the stored users as they were.
C8_DuplicateSignupRefused ==
    [][\A c \in Clients :
         (SignupRequest(last') /\ last'.client = c
            /\ last'.resp.handler = "userSignupPost" /\ last'.fail = "none"
            /\ PassesSignupChecks(last'.form)
            /\ \E i \in DOMAIN users : users[i].email = last'.form.email)
         => /\ last'.resp.status = StatusUnprocessableEntity
            /\ last'.resp.page = "signup.html"
            /\ DOMAIN last'.resp.validator.FieldErrors = {"email"}
            /\ last'.resp.validator.FieldErrors["email"]
                 = "Email address is already in use"
            /\ users' = users
            /\ "flash" \notin DOMAIN SessionValues(store', cookie', c)
      ]_vars

\* a second signup with a stored email was refused
C8_Witness ==
    /\ SignupRequest(last)
    /\ PassesSignupChecks(last.form)
    /\ last.resp.status = StatusUnprocessableEntity
    /\ "email" \in DOMAIN last.resp.validator.FieldErrors
    /\ last.resp.validator.FieldErrors["email"] = "Email address is already in use"
    /\ Cardinality({i \in DOMAIN users : users[i].email = last.form.email}) = 1

\* the calls of Insert for email e that the database has answered
Answered(e) ==
    {p \in Procs : ins[p].pc \in {"ret", "done"} /\ ins[p].email = e
                   /\ ins[p].dberr # "error"}

Returned(e) == {p \in Answered(e) : ins[p].pc = "done"}

\* C9: under every interleaving of concurrent Insert calls no two stored
\* users share an email; of the calls for one email that the database
\* answers, exactly one stores its row and returns nil, and every other
\* returns ErrDuplicateEmail.
C9_OneInsertPerEmail ==
    /\ \A i, j \in DOMAIN users : users[i].email = users[j].email => i = j
    /\ \A e \in {EmailA, EmailB} :
         /\ Cardinality({i \in DOMAIN users : users[i].email = e})
              = IF Answered(e) = {} THEN 0 ELSE 1
         /\ Cardinality({p \in Returned(e) : ins[p].err = "nil"}) <= 1
         /\ \A p \in Returned(e) : ins[p].err \in {"nil", "ErrDuplicateEmail"}
         /\ (Returned(e) # {} /\ Returned(e) = Answered(e))
            => Cardinality({p \in Returned(e) : ins[p].err = "nil"}) = 1

\* two calls for the same email have returned: one nil, one ErrDuplicateEmail
C9_Witness ==
    \E p, q \in Procs :
        /\ p # q
        /\ ins[p].pc = "done" /\ ins[q].pc = "done"
        /\ ins[p].email = ins[q].email
        /\ ins[p].err = "nil" /\ ins[q].err = "ErrDuplicateEmail"
        /\ Cardinality(DOMAIN users) = 1

ViewRequest(l) ==
    l.kind = "request" /\ l.method = "GET" /\ l.path = "/snippet/view/"

\* the id segment is a decimal integer that is at least 1
AllDigits(s) == \A i \in DOMAIN s : s[i] \in Digits

DecimalAtLeastOne(seg) ==
    LET body == IF seg # <<>> /\ Head(seg) = "+" THEN Tail(seg) ELSE seg
    IN  body # <<>> /\ AllDigits(body) /\ \E i \in DOMAIN body : body[i] # "0"

DecimalValue(seg) ==
    DigitsValue(IF Head(seg) = "+" THEN Tail(seg) ELSE seg, 0)

\* C10: GET /snippet/view/{id} answers 404 when the id segment is not a
\* decimal integer of at least 1, without calling snippets.Get, and (the
\* database working) when no unexpired snippet has that id; a stored,
\* unexpired snippet is shown.
C10_ViewNotFound ==
    (ViewRequest(last) /\ last.fail = "none")
    => /\ ~DecimalAtLeastOne(last.id)
          => /\ last.resp.status = StatusNotFound
             /\ ~last.resp.getCalled
       /\ DecimalAtLeastOne(last.id)
          => LET id == DecimalValue(last.id)
                 live == id \in DOMAIN snippets /\ snippets[id].expires > now
             IN  /\ last.resp.getCalled
                 /\ ~live => last.resp.status = StatusNotFound
                 /\ live => last.resp.status = StatusOK

\* the id of a stored snippet that has expired was asked for: 404
C10_Witness ==
    /\ ViewRequest(last) /\ last.fail = "none"
    /\ DecimalAtLeastOne(last.id)
    /\ DecimalValue(last.id) \in DOMAIN snippets
    /\ snippets[DecimalValue(last.id)].expires <= now
    /\ last.resp.getCalled
    /\ last.resp.status = StatusNotFound

CreateRequest(l) ==
    l.kind = "request" /\ l.method = "POST" /\ l.path = "/snippet/create"

\* C11: a snippet created with expires = N days (the database working) is
\* stored with the submitted title and content and expiry creation + N; Get
\* and the view page return it at every instant before that and answer
\* ErrNoRecord / 404 from that instant on; a stored row never changes and an
\* expired one never shows again in Get or Latest.
C11_SnippetLifetime ==
    [][/\ (CreateRequest(last') /\ last'.fail = "none"
             /\ last'.resp.handler = "snippetCreatePost"
             /\ last'.resp.status = StatusSeeOther)
          => LET id == last'.resp.location.id
                 n == DecimalValue(last'.form.expires)
             IN  /\ n \in {1, 7, 365}
                 /\ id \in DOMAIN snippets' \ DOMAIN snippets
                 /\ snippets'[id] = [title |-> last'.form.title,
                                     content |-> last'.form.content,
                                     created |-> now, expires |-> now + n]
       /\ \A id \in DOMAIN snippets' :
            LET g == SnippetGet(snippets', now', id, FALSE)
                l == Latest(snippets', now', FALSE)
            IN  IF now' < snippets'[id].expires
                THEN g.err = "nil" /\ g.snippet = snippets'[id]
                ELSE /\ g.err = "ErrNoRecord"
                     /\ \A k \in DOMAIN l.ids : l.ids[k] # id
       /\ (ViewRequest(last') /\ last'.fail = "none"
             /\ DecimalAtLeastOne(last'.id)
             /\ DecimalValue(last'.id) \in DOMAIN snippets)
          => LET row == snippets[DecimalValue(last'.id)]
             IN  IF now < row.expires
                 THEN /\ last'.resp.status = StatusOK
                      /\ last'.resp.snippet = row
                 ELSE last'.resp.status = StatusNotFound
       /\ \A id \in DOMAIN snippets :
            /\ id \in DOMAIN snippets' /\ snippets'[id] = snippets[id]
            /\ now >= snippets[id].expires => now' >= snippets'[id].expires
      ]_vars

\* a snippet created for 7 days was asked for at the instant it expires
C11_Witness ==
    /\ ViewRequest(last) /\ last.fail = "none"
    /\ DecimalAtLeastOne(last.id)
    /\ DecimalValue(last.id) \in DOMAIN snippets
    /\ snippets[DecimalValue(last.id)].created + 7 = now
    /\ snippets[DecimalValue(last.id)].expires = now
    /\ last.resp.status = StatusNotFound

\* C12: when the storage write fails, Insert returns a non-nil error and
\* POST /snippet/create answers 500, sets no "Snippet successfully created"
\* flash and does not redirect to a snippet view path; Insert returns
\* (id, nil) only when a row was stored and id is positive.
C12_InsertReportsFailure ==
    [][\A c \in Clients :
         (CreateRequest(last') /\ last'.client = c
            /\ last'.fail = "snippets.Insert"
            /\ "snippets.Insert" \in last'.resp.calls)
         => /\ last'.resp.status = StatusInternalServerError
            /\ last'.resp.location.path # "/snippet/view/"
            /\ "flash" \notin DOMAIN SessionValues(store', cookie', c)
            /\ \A f \in BOOLEAN :
                 LET i == SnippetInsert(World(c), now, last'.form.title,
                                        last'.form.content, 7, f)
                 IN  i.err = "nil"
                     => i.id > 0 /\ i.id \in DOMAIN i.w.snippets \ DOMAIN snippets
      ]_vars

\* the expires value reads as an integer: an optional sign, then digits
IntegerText(seg) ==
    LET body == IF seg # <<>> /\ Head(seg) \in {"+", "-"} THEN Tail(seg) ELSE seg
    IN  body # <<>> /\ AllDigits(body)

\* what the snippet form asks of a submission
ValidSnippetForm(f) ==
    /\ \E i \in DOMAIN f.title : f.title[i] \notin WhiteSpace
    /\ Len(f.title) <= 100
    /\ \E i \in DOMAIN f.content : f.content[i] \notin WhiteSpace
    /\ DecimalAtLeastOne(f.expires)
    /\ DecimalValue(f.expires) \in {1, 7, 365}

PutsFlash(ops) == \E i \in DOMAIN ops : ops[i] = <<"Put", "flash">>

\* C13 (amended): a POST /snippet/create that reaches its handler calls
\* snippets.Insert iff title is non-blank with at most 100 code points,
\* content is non-blank and expires is 1, 7 or 365; it then answers 303 to
\* /snippet/view/{returned id}. Otherwise no snippet is inserted and no
\* flash set, and the answer is 400 when the form cannot be decoded (the
\* body does not parse, or expires is not an integer) and 422 in every
\* other case, a blank title giving "This field cannot be blank".
C13_CreateValidation ==
    [][(CreateRequest(last') /\ last'.resp.handler = "snippetCreatePost"
          /\ last'.fail \in {"none", "snippets.Insert", "ParseForm"})
       => LET f == last'.form
              r == last'.resp
              decoded == /\ last'.fail # "ParseForm"
                         /\ f.expires = <<>> \/ IntegerText(f.expires)
              ok == decoded /\ ValidSnippetForm(f)
          IN  /\ ("snippets.Insert" \in r.calls) <=> ok
              /\ ok
                 => /\ r.status = StatusSeeOther
                    /\ r.location.path = "/snippet/view/"
                    /\ last'.fail = "none"
                       => /\ r.location.id = nextSnippetID
                          /\ DOMAIN snippets' = DOMAIN snippets \cup {nextSnippetID}
                    /\ last'.fail # "none" => r.location.id = 0
              /\ ~ok
                 => /\ snippets' = snippets
                    /\ ~PutsFlash(last'.ops)
                    /\ r.location = NoLocation
                    /\ IF ~decoded
                       THEN r.status = StatusBadRequest
                       ELSE /\ r.status = StatusUnprocessableEntity
                            /\ r.page = "create.html"
                            /\ DOMAIN r.validator.FieldErrors # {}
                            /\ (\A i \in DOMAIN f.title : f.title[i] \in WhiteSpace)
                               => r.validator.FieldErrors["title"]
                                    = "This field cannot be blank"
      ]_vars

\* C13 as stated: every submission that fails the three conditions gets 422.
C13_AsStated ==
    [][(CreateRequest(last') /\ last'.resp.handler = "snippetCreatePost"
          /\ last'.fail = "none")
       => /\ ("snippets.Insert" \in last'.resp.calls) <=> ValidSnippetForm(last'.form)
          /\ ValidSnippetForm(last'.form)
             => /\ last'.resp.status = StatusSeeOther
                /\ last'.resp.location = LocID("/snippet/view/", nextSnippetID)
          /\ ~ValidSnippetForm(last'.form)
             => /\ last'.resp.status = StatusUnprocessableEntity
                /\ snippets' = snippets
                /\ ~PutsFlash(last'.ops)
      ]_vars

\* a title of 101 code points was refused, one of 100 is stored
C13_Witness ==
    /\ CreateRequest(last)
    /\ last.form.title = Title101
    /\ last.resp.status = StatusUnprocessableEntity
    /\ last.resp.validator.FieldErrors["title"]
         = "This field cannot be more than 100 characters long"
    /\ \E id \in DOMAIN snippets : snippets[id].title = Title100

\* what the signup form asks of a submission
ValidSignupForm(f) ==
    /\ \E i \in DOMAIN f.name : f.name[i] \notin WhiteSpace
    /\ \E i \in DOMAIN f.email : f.email[i] \notin WhiteSpace
    /\ MatchesEmailRX(f.email)
    /\ \E i \in DOMAIN f.password : f.password[i] \notin WhiteSpace
    /\ Len(f.password) >= 8

PasswordUpdateCalled(l) ==
    /\ l.kind = "request"
    /\ l.resp.handler = "accountPasswordUpdatePost"
    /\ "users.PasswordUpdate" \in l.resp.calls
    /\ l.fail = "none"

\* The current password is the one whose hash is stored for id.
CurrentMatches(us, id, current) ==
    id \in DOMAIN us /\ CompareHashAndPassword(us[id].hashed_password, current)

\* The table us with the hash of id, and of no other user, replaced.
HashReplaced(us, after, id, new) ==
    /\ DOMAIN after = DOMAIN us
    /\ \A i \in DOMAIN us :
         after[i] = IF i = id
                    THEN [us[i] EXCEPT !.hashed_password = GenerateFromPassword(new)]
                    ELSE us[i]

\* C15: PasswordUpdate(id, current, new) replaces the stored hash of user
\* id, and of no other user, only when current matches the hash stored for
\* id; when it does not match, it returns ErrInvalidCredentials and every
\* stored hash is unchanged, and the password-update handler answers 422
\* with a field error on current_password and does not redirect.
C15_PasswordUpdate ==
    [][/\ \A id \in 0..(MaxUsers + 1), cur \in {Pw1, Pw2, <<>>}, new \in {Pw1, Pw2} :
            LET u == PasswordUpdate(users, id, cur, new, FALSE)
            IN  IF CurrentMatches(users, id, cur)
                THEN u.err = "nil" /\ HashReplaced(users, u.users, id, new)
                ELSE u.err = "ErrInvalidCredentials" /\ u.users = users
       /\ PasswordUpdateCalled(last') =>
            LET uid == HeldUserID(SessionValues(store, cookie, last'.client))
            IN  IF CurrentMatches(users, uid, last'.form.current_password)
                THEN /\ HashReplaced(users, users', uid, last'.form.new_password)
                     /\ last'.resp.status = StatusSeeOther
                ELSE /\ users' = users
                     /\ last'.resp.status = StatusUnprocessableEntity
                     /\ last'.resp.location = NoLocation
                     /\ "current_password" \in DOMAIN last'.resp.validator.FieldErrors
                     /\ last'.resp.validator.FieldErrors["current_password"]
                          = "Current password is incorrect"]_vars

\* a user who changed the password is refused the old one, beside another
\* user whose hash was never touched
C15_Witness ==
    /\ PasswordUpdateCalled(last)
    /\ last.resp.status = StatusUnprocessableEntity
    /\ last.form.current_password = Pw1
    /\ \E i, j \in DOMAIN users :
         /\ i = HeldUserID(SessionValues(store, cookie, last.client))
         /\ j # i
         /\ users[i].hashed_password = GenerateFromPassword(Pw2)
         /\ users[j].hashed_password = GenerateFromPassword(Pw1)

\* A call that records an error: a CheckField whose predicate is false, an
\* AddFieldError, an AddNonFieldError.
Records(call) == ~(call.op = "CheckField" /\ call.ok)

\* C16: after any sequence of CheckField, AddFieldError and AddNonFieldError
\* calls on a Validator, Valid() is true if and only if no error has been
\* recorded: every CheckField had a true predicate and the other two were
\* never called.
C16_ValidIffNothingRecorded ==
    Valid(validation.v)
        <=> \A i \in DOMAIN validation.calls : ~Records(validation.calls[i])

\* a Validator whose only recorded error is a non-field error, after
\* passing checks
C16_Witness ==
    /\ Len(validation.calls) >= 2
    /\ \E i \in DOMAIN validation.calls : ~Records(validation.calls[i])
    /\ \A i \in DOMAIN validation.calls :
         Records(validation.calls[i]) => validation.calls[i].op = "AddNonFieldError"
    /\ \E i \in DOMAIN validation.calls : Records(validation.calls[i])
    /\ ~Valid(validation.v)

\* The calls that fail for a key, by their place in the sequence.
FailingFor(calls, key) ==
    {i \in DOMAIN calls : /\ calls[i].op \in {"CheckField", "AddFieldError"}
                          /\ Records(calls[i])
                          /\ calls[i].key = key}

FirstOf(S) == CHOOSE i \in S : \A j \in S : i <= j

\* C17: after any sequence of CheckField and AddFieldError calls the message
\* stored for a key is the message of the first failing call for that key;
\* a later failing call for the key, a call with a true predicate, and a
\* call for another key leave the key's message as it was.
C17_FirstErrorWins ==
    [][/\ \A key \in FieldKeys :
            LET failing == FailingFor(validation'.calls, key)
                stored == validation'.v.FieldErrors
            IN  IF failing = {} THEN key \notin DOMAIN stored
                ELSE /\ key \in DOMAIN stored
                     /\ stored[key] = validation'.calls[FirstOf(failing)].message
       /\ LET call == validation'.calls[Len(validation'.calls)]
              before == validation.v.FieldErrors
              after == validation'.v.FieldErrors
          IN  /\ ~Records(call) => validation'.v = validation.v
              /\ \A key \in DOMAIN before :
                   key \in DOMAIN after /\ after[key] = before[key]
              /\ \A key \in FieldKeys :
                   (call.op = "AddNonFieldError" \/ key # call.key) =>
                       (key \in DOMAIN after <=> key \in DOMAIN before)]_vars

\* two failing calls for one key with different messages, a passing check
\* and a failing call for another key: the first message stands
C17_Witness ==
    /\ \E i, j \in FailingFor(validation.calls, "title") :
         /\ i < j
         /\ FirstOf(FailingFor(validation.calls, "title")) = i
         /\ validation.calls[i].message # validation.calls[j].message
         /\ validation.v.FieldErrors["title"] = validation.calls[i].message
    /\ FailingFor(validation.calls, "content") # {}
    /\ \E i \in DOMAIN validation.calls : ~Records(validation.calls[i])

\* The rows of the table not yet expired.
Unexpired(sn, t) == {i \in DOMAIN sn : t < sn[i].expires}

PanicRaised(l, held) ==
    /\ l.kind = "request"
    /\ \/ /\ l.fail = "InvalidDecoderError"
          /\ l.resp.handler \in {"userSignupPost", "snippetCreatePost"}
       \/ /\ l.fail = "users.Exists panics"
          /\ PassesCsrf(l)
          /\ HeldUserID(held) # 0

\* C19: when a handler or a middleware inside recoverPanic panics while
\* serving a request (the decoder's panic on a target it cannot fill
\* included), the client receives 500 with Connection: close, and the server
\* keeps serving: its tables and sessions are as before, and every later
\* request is answered, on a connection that stays open.
C19_PanicRecovered ==
    [][/\ (last'.kind = "request"
             /\ (last'.resp.panic
                  \/ PanicRaised(last', SessionValues(store, cookie, last'.client))))
          => /\ last'.resp.panic
             /\ last'.resp.status = StatusInternalServerError
             /\ last'.resp.connection = "close"
             /\ last'.resp.pageBody = ""
             /\ last'.resp.location = NoLocation
             /\ UNCHANGED <<users, snippets, store, cookie>>
       /\ (last'.kind = "request" /\ hist[last'.client].panicked
             /\ last'.fail = "none")
          => /\ ~last'.resp.panic
             /\ last'.resp.connection = ""
             /\ last'.resp.status \in {StatusOK, StatusSeeOther, StatusBadRequest,
                                       StatusUnprocessableEntity}]_vars

\* a browser whose signup panicked in the decoder, and whose request under
\* a logged-in session panicked in authenticate, is served its home page
C19_Witness ==
    /\ last.kind = "request"
    /\ hist[last.client].panicked
    /\ last.fail = "none"
    /\ last.resp.handler = "home"
    /\ last.resp.status = StatusOK
    /\ last.seen

\* C20: render writes the status it is given and the complete page body
\* only when the page is in the template cache and its execution succeeds;
\* when the page is unknown or the execution fails the response is 500,
\* holds no part of the page body, and the status asked for is not sent.
C20_RenderAllOrNothing ==
    [][(last'.kind = "request" /\ last'.resp.render # NoRender)
          => LET asked == last'.resp.render
             IN  IF last'.fail \notin {"templateCache", "ExecuteTemplate"}
                 THEN /\ last'.resp.status = asked.status
                      /\ last'.resp.page = asked.page
                      /\ last'.resp.pageBody = "complete"
                 ELSE /\ last'.resp.status = StatusInternalServerError
                      /\ last'.resp.status # asked.status
                      /\ last'.resp.page = ""
                      /\ last'.resp.pageBody = ""]_vars

\* a 422 page whose execution failed half way: 500, nothing of the page
C20_Witness ==
    /\ last.kind = "request"
    /\ last.fail = "ExecuteTemplate"
    /\ last.resp.render = [status |-> StatusUnprocessableEntity, page |-> "signup.html"]
    /\ last.resp.status = StatusInternalServerError
    /\ last.resp.pageBody = ""

\* The flash message a session holds ("" when none).
FlashOf(values) == IF "flash" \in DOMAIN values THEN values["flash"] ELSE ""

\* A page was rendered in the response.
PageRendered(l) ==
    l.resp.page # "" /\ l.resp.status \in {StatusOK, StatusUnprocessableEntity}

\* The flash message of a successful POST, "" for any other response.
FlashPut(l) ==
    IF l.resp.status # StatusSeeOther THEN ""
    ELSE IF l.resp.handler = "snippetCreatePost" THEN "Snippet successfully created"
    ELSE IF l.resp.handler = "userSignupPost"
    THEN "Your signup was successful. Please log in."
    ELSE IF l.resp.handler = "userLogoutPost" THEN "You've been logged out successfully"
    ELSE ""

\* C21 (amended): a flash message put into the session by a successful POST
\* is shown in the first page rendered afterwards for that session and in no
\* later page, unless another successful POST replaces it before a page is
\* rendered; newTemplateData removes it in the step that reads it. (Nothing
\* failing while the request is served.)
C21_FlashShownOnce ==
    [][\A c \in Clients :
         (last'.kind = "request" /\ last'.client = c /\ last'.fail = "none")
         => LET held == FlashOf(SessionValues(store, cookie, c))
                after == FlashOf(SessionValues(store', cookie', c))
            IN  /\ PageRendered(last') => last'.resp.flash = held /\ after = ""
                /\ FlashPut(last') # "" => after = FlashPut(last')
                /\ (~PageRendered(last') /\ held # "")
                   => after = held \/ FlashPut(last') # ""
      ]_vars

\* C21 as stated: a flash message held by the session stays until a page
\* shows it.
C21_AsStated ==
    [][\A c \in Clients :
         (last'.kind = "request" /\ last'.client = c /\ last'.fail = "none")
         => LET held == FlashOf(SessionValues(store, cookie, c))
                after == FlashOf(SessionValues(store', cookie', c))
            IN  /\ PageRendered(last') => last'.resp.flash = held /\ after = ""
                /\ (~PageRendered(last') /\ held # "") => after = held
      ]_vars

\* the signup flash, carried through the login, is shown on the snippet
\* form and is gone from the session
C21_Witness ==
    /\ last.kind = "request" /\ last.fail = "none"
    /\ last.path = "/snippet/create" /\ last.method = "GET"
    /\ PageRendered(last)
    /\ last.resp.flash = "Your signup was successful. Please log in."
    /\ FlashOf(SessionValues(store, cookie, last.client)) = ""

\* C22: GET /ping through the handler routes() returns is answered 200
\* with the body "OK", with no session, database or template cache in use.
C22_PingAnswersOK ==
    (last.kind = "request" /\ last.method = "GET" /\ last.path = "/ping")
    => last.resp = ping(last, World(last.client)).resp

\* The decimal text of an integer, as the template prints it.
DigitRune(d) ==
    CASE d = 0 -> "0" [] d = 1 -> "1" [] d = 2 -> "2" [] d = 3 -> "3"
      [] d = 4 -> "4" [] d = 5 -> "5" [] d = 6 -> "6" [] d = 7 -> "7"
      [] d = 8 -> "8" [] d = 9 -> "9"

RECURSIVE DecimalText(_)
DecimalText(n) ==
    IF n < 0 THEN <<"-">> \o DecimalText(0 - n)
    ELSE IF n < 10 THEN <<DigitRune(n)>>
    ELSE DecimalText(n \div 10) \o <<DigitRune(n % 10)>>

\* The snippet form was refused by validation and its page rendered again.
CreateRefused(l) ==
    /\ CreateRequest(l) /\ l.fail = "none"
    /\ l.resp.handler = "snippetCreatePost"
    /\ l.resp.status = StatusUnprocessableEntity

\* C23 (amended): when the snippet form fails validation and the page is
\* rendered again at 422, the form passed to the template holds the title
\* and the content exactly as submitted and, for expires, the integer the
\* submitted text denotes (0 when no value was submitted), together with
\* the recorded errors.
C23_FormKeepsInput ==
    CreateRefused(last)
    => /\ last.resp.form.Title = last.form.title
       /\ last.resp.form.Content = last.form.content
       /\ last.resp.form.Expires = IF last.form.expires = <<>> THEN 0
                                   ELSE DecimalValue(last.form.expires)
       /\ DOMAIN last.resp.validator.FieldErrors # {}
       /\ ~ValidSnippetForm(last.form)

\* C23 as stated: the form holds exactly the values submitted, expires
\* included.
C23_AsStated ==
    CreateRefused(last)
    => /\ last.resp.form.Title = last.form.title
       /\ last.resp.form.Content = last.form.content
       /\ DecimalText(last.resp.form.Expires) = last.form.expires

\* a title of white space only is handed back as it was sent
C23_Witness ==
    /\ CreateRefused(last)
    /\ last.form.title = <<" ">>
    /\ last.resp.form.Title = <<" ">>
    /\ last.resp.form.Expires = 7
    /\ "title" \in DOMAIN last.resp.validator.FieldErrors

\* C24: every response to a request for a protected route by an
\* authenticated session (the guard let it through to the handler) carries
\* a Cache-Control header with the directive no-store.
C24_ProtectedNotStored ==
    (last.kind = "request" /\ Route(last) \in ProtectedRoutes
       /\ last.resp.handler # "none")
    => last.resp.cacheControl = "no-store"

\* the stages of the chain a route is registered under, outermost first
StageOrder(r) ==
    <<"recoverPanic", "logRequest", "commonHeaders", "LoadAndSave", "noSurf",
      "authenticate">>
    \o (IF Route(r) \in ProtectedRoutes THEN <<"requireAuthentication">> ELSE <<>>)
    \o <<"handler">>

IsPrefix(s, t) == Len(s) <= Len(t) /\ s = SubSeq(t, 1, Len(s))

Ran(r, stage) == \E i \in DOMAIN r.stages : r.stages[i] = stage

\* C25: on a dynamic route the stages are entered in the order recoverPanic,
\* logRequest, commonHeaders, LoadAndSave, noSurf, authenticate, then
\* requireAuthentication on protected routes, then the handler: what ran is
\* always a prefix of that order. A POST to a protected route whose CSRF
\* token is missing or wrong gets 400 without the guard having run, and the
\* guard runs only after authenticate.
C25_StagesInOrder ==
    [][(last'.kind = "request" /\ Matched(last'))
       => /\ IsPrefix(last'.stages, StageOrder(last'))
          /\ Len(last'.stages) >= 5
          /\ (last'.method = "POST" /\ Route(last') \in ProtectedRoutes
                /\ (last'.csrfSent = NoCsrf \/ last'.csrfSent # last'.csrfCookie))
             => /\ last'.resp.status = StatusBadRequest
                /\ ~Ran(last', "requireAuthentication")
                /\ ~Ran(last', "handler")
          /\ Ran(last', "requireAuthentication") => Ran(last', "authenticate")
          /\ Ran(last', "handler") <=> last'.resp.handler # "none"
      ]_vars

\* a POST to /snippet/create from a client that is not logged in, with a
\* wrong CSRF token, was stopped at noSurf with 400
C25_Witness ==
    /\ last.kind = "request" /\ last.method = "POST"
    /\ last.path = "/snippet/create"
    /\ last.csrfSent # NoCsrf /\ last.csrfSent # last.csrfCookie
    /\ HeldUserID(SessionValues(store, cookie, last.client)) = 0
    /\ last.resp.status = StatusBadRequest
    /\ last.stages = <<"recoverPanic", "logRequest", "commonHeaders",
                       "LoadAndSave", "noSurf">>

\* a request the dynamic chains or the mux's not-found and wrong-method
\* answers deal with: a clean path outside /static
OutsideStatic(r) ==
    /\ r.kind = "request"
    /\ CleanPath(r.path) = r.path
    /\ r.path \notin StaticPaths \cup {"/static"}

\* C26: every response to a request for a clean path outside /static has a
\* status among 200, 303, 400, 404, 405, 422 and 500.
C26_StatusesSent ==
    OutsideStatic(last)
    => last.resp.status \in {StatusOK, StatusSeeOther, StatusBadRequest,
                              StatusNotFound, StatusMethodNotAllowed,
                              StatusUnprocessableEntity, StatusInternalServerError}

\* C26 as stated: every response has a status among 200, 303, 400, 404,
\* 422 and 500.
C26_AsStated ==
    last.kind = "request"
    => last.resp.status \in {StatusOK, StatusSeeOther, StatusBadRequest,
                              StatusNotFound, StatusUnprocessableEntity,
                              StatusInternalServerError}

\* GET /user/logout, a path registered for POST only, was answered 405
C26_Witness ==
    /\ last.kind = "request" /\ last.method = "GET" /\ last.path = "/user/logout"
    /\ OutsideStatic(last)
    /\ last.resp.status = StatusMethodNotAllowed

\* the snippet view looked up an id no unexpired snippet has
SnippetNotFound(r) ==
    /\ r.kind = "request" /\ r.fail = "none"
    /\ r.resp.handler = "snippetView" /\ r.resp.getCalled
    /\ SnippetGet(snippets, now, Atoi(r.id).n, FALSE).err = "ErrNoRecord"

\* the account view looked up a session user id no stored user has
UserNotFound(r) ==
    /\ r.kind = "request" /\ r.fail = "none"
    /\ r.resp.handler = "accountView"
    /\ HeldUserID(SessionValues(store, cookie, r.client)) # 0
    /\ HeldUserID(SessionValues(store, cookie, r.client)) \notin DOMAIN users

\* C27: the snippet view answers 404 when the id of the path is the id of
\* no unexpired snippet; the account view does not: when the user id of the
\* session matches no stored user it redirects to /user/login with 303.
C27_NoRecordAnswers ==
    [][/\ SnippetNotFound(last') => last'.resp.status = StatusNotFound
       /\ UserNotFound(last')
          => /\ last'.resp.status = StatusSeeOther
             /\ last'.resp.location = Loc("/user/login")
             /\ last'.resp.page = ""
      ]_vars

\* C27 as stated: both lookups answer 404 on ErrNoRecord.
C27_AsStated ==
    [][/\ SnippetNotFound(last') => last'.resp.status = StatusNotFound
       /\ UserNotFound(last') => last'.resp.status = StatusNotFound
      ]_vars

\* the account view was called for a session whose user had been removed
C27_Witness ==
    /\ last.kind = "request" /\ last.resp.handler = "accountView"
    /\ last.fail = "none"
    /\ HeldUserID(SessionValues(store, cookie, last.client)) # 0
    /\ HeldUserID(SessionValues(store, cookie, last.client)) \notin DOMAIN users
    /\ last.resp.status = StatusSeeOther

\* two requests in flight together were answered, both having loaded the
\* same session with the same flash message in it
SharedFlash(a, b) ==
    /\ a # b
    /\ flight.slots[a].phase = "done" /\ flight.slots[b].phase = "done"
    /\ flight.slots[a].sd.token # NoToken
    /\ flight.slots[a].sd.token = flight.slots[b].sd.token
    /\ GetString(flight.slots[a].sd, "flash") # ""
    /\ GetString(flight.slots[a].sd, "flash") = GetString(flight.slots[b].sd, "flash")

\* C28: of two requests in flight together with the same session token, at
\* most one renders the flash message stored in that session.
C28_FlashRenderedOnce ==
    \A a, b \in Slots :
        SharedFlash(a, b)
        => ~(/\ flight.slots[a].resp.flash = GetString(flight.slots[a].sd, "flash")
             /\ flight.slots[b].resp.flash = GetString(flight.slots[b].sd, "flash"))

\* C29: once a logout has completed, the token its session was loaded under
\* never again names a stored session that holds authenticatedUserID.
C29_RetiredTokenStaysOut ==
    \A t \in flight.retired :
        t \in DOMAIN store => HeldUserID(store[t]) = 0

\* C30: a PasswordUpdate call overwrites the stored hash only if the
\* current password it was given matches the hash stored at the moment of
\* the overwrite.
C30_OverwriteMatchesStored ==
    [][\A p \in Updaters :
         (/\ upd[p].pc = "exec" /\ upd'[p].pc = "done" /\ upd'[p].err = "nil"
          /\ upd[p].id \in DOMAIN users)
         => CompareHashAndPassword(users[upd[p].id].hashed_password,
                                   upd[p].current_password)
      ]_vars
====
